---------------------------- MODULE Spec2Model ----------------------------
(***************************************************************************)
(* Model of src/extensions/extensions.py: the Registry tables              *)
(* (ConfigExtension._FILE_TYPES, ConfigExtension._TOOLS), the Config       *)
(* value with its from_yaml / to_yaml conversions, and the closure loop    *)
(* of ConfigExtension.expand_config, one action per loop iteration.        *)
(***************************************************************************)
EXTENDS Integers, Sequences, FiniteSets, TLC

\* Tool.installed_by is "str | None"; None is modelled by a string that is
\* no tool id.  Like Python's None (and ""), it is falsy.
None == "<None>"

(***************************************************************************)
(* The Registry: ConfigExtension._FILE_TYPES and ConfigExtension._TOOLS.   *)
(***************************************************************************)
\* _FILE_TYPES with a dangling edge: the shell file type names a tool,
\* "typo", that _TOOLS does not hold.
FILE_TYPESDangling ==
    ("shell" :> [tools |-> {"shellcheck", "shfmt", "typo"},
            tags |-> {"shell"}]
    @@ "python" :> [tools |-> {"ast-grep", "mypy", "ruff"},
            tags |-> {"pyi", "python"}]
    @@ "javascript" :> [tools |-> {"eslint", "prettier"},
            tags |-> {"javascript"}]
    @@ "html" :> [tools |-> {"htmlvalidate", "prettier"},
            tags |-> {"html"}]
    @@ "css" :> [tools |-> {"prettier", "stylelint"},
            tags |-> {"css"}]
    @@ "markdown" :> [tools |-> {"markdownlint", "prettier"},
            tags |-> {"markdown"}]
    @@ "json" :> [tools |-> {"prettier"},
            tags |-> {"json"}]
    @@ "yaml" :> [tools |-> {"prettier", "yamllint"},
            tags |-> {"yaml"}]
    @@ "toml" :> [tools |-> {"tombi"},
            tags |-> {"toml"}])

FILE_TYPES ==
    ("shell" :> [tools |-> {"shellcheck", "shfmt"},
            tags |-> {"shell"}]
    @@ "python" :> [tools |-> {"ast-grep", "mypy", "ruff"},
            tags |-> {"pyi", "python"}]
    @@ "javascript" :> [tools |-> {"eslint", "prettier"},
            tags |-> {"javascript"}]
    @@ "html" :> [tools |-> {"htmlvalidate", "prettier"},
            tags |-> {"html"}]
    @@ "css" :> [tools |-> {"prettier", "stylelint"},
            tags |-> {"css"}]
    @@ "markdown" :> [tools |-> {"markdownlint", "prettier"},
            tags |-> {"markdown"}]
    @@ "json" :> [tools |-> {"prettier"},
            tags |-> {"json"}]
    @@ "yaml" :> [tools |-> {"prettier", "yamllint"},
            tags |-> {"yaml"}]
    @@ "toml" :> [tools |-> {"tombi"},
            tags |-> {"toml"}])

TOOLS ==
    ("uv" :> [config_file_types |-> {"python", "shell", "toml"},
            installed_by |-> None,
            requires |-> {"python-license-checker"},
            tags |-> {},
            file_regexes |-> {},
            python_packages |-> ("frozendict" :> "2.4.6" @@ "packaging" :> "25.0"),
            node_packages |-> <<>>]
    @@ "copier" :> [config_file_types |-> {"yaml"},
            installed_by |-> "uv",
            requires |-> {},
            tags |-> {},
            file_regexes |-> {},
            python_packages |-> ("cookiecutter" :> "2.6.0" @@ "copier" :> "9.10.2" @@ "copier-template-extensions" :> "0.3.3" @@ "identify" :> "2.6.15"),
            node_packages |-> <<>>]
    @@ "pre-commit" :> [config_file_types |-> {"yaml"},
            installed_by |-> "uv",
            requires |-> {},
            tags |-> {},
            file_regexes |-> {},
            python_packages |-> ("pre-commit" :> "4.3.0"),
            node_packages |-> <<>>]
    @@ "python-license-checker" :> [config_file_types |-> {},
            installed_by |-> "uv",
            requires |-> {},
            tags |-> {},
            file_regexes |-> {},
            python_packages |-> ("licensecheck" :> "2025.1.0"),
            node_packages |-> <<>>]
    @@ "npm" :> [config_file_types |-> {"json", "shell"},
            installed_by |-> None,
            requires |-> {"node-license-checker"},
            tags |-> {},
            file_regexes |-> {},
            python_packages |-> <<>>,
            node_packages |-> <<>>]
    @@ "node-license-checker" :> [config_file_types |-> {},
            installed_by |-> "npm",
            requires |-> {},
            tags |-> {},
            file_regexes |-> {},
            python_packages |-> <<>>,
            node_packages |-> ("license-checker-rseidelsohn" :> "4.4.2")]
    @@ "prettier" :> [config_file_types |-> {"json"},
            installed_by |-> "npm",
            requires |-> {},
            tags |-> {},
            file_regexes |-> {},
            python_packages |-> <<>>,
            node_packages |-> ("prettier" :> "3.6.2")]
    @@ "shellcheck" :> [config_file_types |-> {},
            installed_by |-> "uv",
            requires |-> {},
            tags |-> {},
            file_regexes |-> {},
            python_packages |-> ("shellcheck-py" :> "0.11.0.1"),
            node_packages |-> <<>>]
    @@ "shfmt" :> [config_file_types |-> {},
            installed_by |-> None,
            requires |-> {},
            tags |-> {},
            file_regexes |-> {},
            python_packages |-> <<>>,
            node_packages |-> <<>>]
    @@ "bats" :> [config_file_types |-> {"shell"},
            installed_by |-> "npm",
            requires |-> {},
            tags |-> {"bats"},
            file_regexes |-> {},
            python_packages |-> <<>>,
            node_packages |-> ("bats" :> "1.12.0" @@ "bats-assert" :> "2.2.0" @@ "bats-support" :> "0.3.0")]
    @@ "ruff" :> [config_file_types |-> {"toml"},
            installed_by |-> "uv",
            requires |-> {},
            tags |-> {},
            file_regexes |-> {},
            python_packages |-> ("ruff" :> "0.14.0"),
            node_packages |-> <<>>]
    @@ "mypy" :> [config_file_types |-> {"toml"},
            installed_by |-> "uv",
            requires |-> {},
            tags |-> {},
            file_regexes |-> {},
            python_packages |-> ("mypy" :> "1.18.2"),
            node_packages |-> <<>>]
    @@ "pytest" :> [config_file_types |-> {"toml"},
            installed_by |-> "uv",
            requires |-> {},
            tags |-> {},
            file_regexes |-> {"(.*/)?conftest\\.py"},
            python_packages |-> ("pytest" :> "8.4.2" @@ "pytest-cov" :> "7.0.0" @@ "pytest-custom_exit_code" :> "0.3.0"),
            node_packages |-> <<>>]
    @@ "eslint" :> [config_file_types |-> {"javascript"},
            installed_by |-> "npm",
            requires |-> {},
            tags |-> {},
            file_regexes |-> {},
            python_packages |-> <<>>,
            node_packages |-> ("@eslint/compat" :> "1.4.0" @@ "@eslint/js" :> "9.37.0" @@ "eslint" :> "9.37.0" @@ "eslint-config-prettier" :> "10.1.8" @@ "globals" :> "16.4.0")]
    @@ "htmlvalidate" :> [config_file_types |-> {"json"},
            installed_by |-> "npm",
            requires |-> {},
            tags |-> {},
            file_regexes |-> {},
            python_packages |-> <<>>,
            node_packages |-> ("html-validate" :> "10.1.1")]
    @@ "stylelint" :> [config_file_types |-> {"json"},
            installed_by |-> "npm",
            requires |-> {},
            tags |-> {},
            file_regexes |-> {},
            python_packages |-> <<>>,
            node_packages |-> ("stylelint" :> "16.25.0" @@ "stylelint-config-standard" :> "39.0.1")]
    @@ "markdownlint" :> [config_file_types |-> {"json"},
            installed_by |-> "npm",
            requires |-> {},
            tags |-> {},
            file_regexes |-> {},
            python_packages |-> <<>>,
            node_packages |-> ("markdownlint-cli2" :> "0.18.1")]
    @@ "yamllint" :> [config_file_types |-> {"yaml"},
            installed_by |-> "uv",
            requires |-> {},
            tags |-> {},
            file_regexes |-> {},
            python_packages |-> ("yamllint" :> "1.37.1"),
            node_packages |-> <<>>]
    @@ "tombi" :> [config_file_types |-> {"toml"},
            installed_by |-> "uv",
            requires |-> {},
            tags |-> {},
            file_regexes |-> {},
            python_packages |-> ("tombi" :> "0.6.25"),
            node_packages |-> <<>>]
    @@ "ast-grep" :> [config_file_types |-> {"yaml"},
            installed_by |-> "uv",
            requires |-> {},
            tags |-> {},
            file_regexes |-> {"\\.ast_grep/.*"},
            python_packages |-> ("ast-grep-cli" :> "0.39.6"),
            node_packages |-> <<>>]
    @@ "typos" :> [config_file_types |-> {"toml"},
            installed_by |-> "uv",
            requires |-> {},
            tags |-> {},
            file_regexes |-> {},
            python_packages |-> ("typos" :> "1.38.1"),
            node_packages |-> <<>>]
    @@ "bump-my-version" :> [config_file_types |-> {"toml"},
            installed_by |-> "uv",
            requires |-> {},
            tags |-> {},
            file_regexes |-> {},
            python_packages |-> ("bump-my-version" :> "1.2.4"),
            node_packages |-> <<>>]
    @@ "gitleaks" :> [config_file_types |-> {"toml"},
            installed_by |-> None,
            requires |-> {},
            tags |-> {},
            file_regexes |-> {},
            python_packages |-> <<>>,
            node_packages |-> <<>>]
    @@ "github-actions" :> [config_file_types |-> {"yaml"},
            installed_by |-> None,
            requires |-> {"actionlint", "gha-update", "zizmor"},
            tags |-> {},
            file_regexes |-> {"\\.github/workflows/.*.yml"},
            python_packages |-> <<>>,
            node_packages |-> <<>>]
    @@ "actionlint" :> [config_file_types |-> {},
            installed_by |-> None,
            requires |-> {},
            tags |-> {},
            file_regexes |-> {},
            python_packages |-> <<>>,
            node_packages |-> <<>>]
    @@ "zizmor" :> [config_file_types |-> {},
            installed_by |-> "uv",
            requires |-> {},
            tags |-> {},
            file_regexes |-> {},
            python_packages |-> ("zizmor" :> "1.14.2"),
            node_packages |-> <<>>]
    @@ "gha-update" :> [config_file_types |-> {},
            installed_by |-> "uv",
            requires |-> {},
            tags |-> {},
            file_regexes |-> {},
            python_packages |-> ("gha-update" :> "0.2.0"),
            node_packages |-> <<>>]
    @@ "gitlint" :> [config_file_types |-> {},
            installed_by |-> "uv",
            requires |-> {},
            tags |-> {},
            file_regexes |-> {},
            python_packages |-> ("gitlint" :> "0.19.1"),
            node_packages |-> <<>>])

FileTypeIds == DOMAIN FILE_TYPES
ToolIds == DOMAIN TOOLS

\* An id that is in neither table (a typo in a user's config).
UnknownIds == {"typo"}

(***************************************************************************)
(* Python's str ordering, used by sorted() in Config.to_yaml: strings are  *)
(* compared code point by code point, a proper prefix being smaller.       *)
(***************************************************************************)
CodePoints ==
    ("yaml" :> <<121, 97, 109, 108>>
    @@ "yamllint" :> <<121, 97, 109, 108, 108, 105, 110, 116>>
    @@ "bats" :> <<98, 97, 116, 115>>
    @@ "gitleaks" :> <<103, 105, 116, 108, 101, 97, 107, 115>>
    @@ "python-license-checker" :> <<112, 121, 116, 104, 111, 110, 45, 108, 105, 99, 101, 110, 115, 101, 45, 99, 104, 101, 99, 107, 101, 114>>
    @@ "ast-grep" :> <<97, 115, 116, 45, 103, 114, 101, 112>>
    @@ "prettier" :> <<112, 114, 101, 116, 116, 105, 101, 114>>
    @@ "shell" :> <<115, 104, 101, 108, 108>>
    @@ "gitlint" :> <<103, 105, 116, 108, 105, 110, 116>>
    @@ "mypy" :> <<109, 121, 112, 121>>
    @@ "html" :> <<104, 116, 109, 108>>
    @@ "pytest" :> <<112, 121, 116, 101, 115, 116>>
    @@ "stylelint" :> <<115, 116, 121, 108, 101, 108, 105, 110, 116>>
    @@ "css" :> <<99, 115, 115>>
    @@ "node-license-checker" :> <<110, 111, 100, 101, 45, 108, 105, 99, 101, 110, 115, 101, 45, 99, 104, 101, 99, 107, 101, 114>>
    @@ "shellcheck" :> <<115, 104, 101, 108, 108, 99, 104, 101, 99, 107>>
    @@ "uv" :> <<117, 118>>
    @@ "typo" :> <<116, 121, 112, 111>>
    @@ "json" :> <<106, 115, 111, 110>>
    @@ "python" :> <<112, 121, 116, 104, 111, 110>>
    @@ "npm" :> <<110, 112, 109>>
    @@ "javascript" :> <<106, 97, 118, 97, 115, 99, 114, 105, 112, 116>>
    @@ "typos" :> <<116, 121, 112, 111, 115>>
    @@ "actionlint" :> <<97, 99, 116, 105, 111, 110, 108, 105, 110, 116>>
    @@ "tombi" :> <<116, 111, 109, 98, 105>>
    @@ "bump-my-version" :> <<98, 117, 109, 112, 45, 109, 121, 45, 118, 101, 114, 115, 105, 111, 110>>
    @@ "eslint" :> <<101, 115, 108, 105, 110, 116>>
    @@ "ruff" :> <<114, 117, 102, 102>>
    @@ "htmlvalidate" :> <<104, 116, 109, 108, 118, 97, 108, 105, 100, 97, 116, 101>>
    @@ "pre-commit" :> <<112, 114, 101, 45, 99, 111, 109, 109, 105, 116>>
    @@ "markdown" :> <<109, 97, 114, 107, 100, 111, 119, 110>>
    @@ "shfmt" :> <<115, 104, 102, 109, 116>>
    @@ "toml" :> <<116, 111, 109, 108>>
    @@ "gha-update" :> <<103, 104, 97, 45, 117, 112, 100, 97, 116, 101>>
    @@ "markdownlint" :> <<109, 97, 114, 107, 100, 111, 119, 110, 108, 105, 110, 116>>
    @@ "copier" :> <<99, 111, 112, 105, 101, 114>>
    @@ "zizmor" :> <<122, 105, 122, 109, 111, 114>>
    @@ "github-actions" :> <<103, 105, 116, 104, 117, 98, 45, 97, 99, 116, 105, 111, 110, 115>>)

RECURSIVE SeqLess(_, _)
SeqLess(a, b) ==
    IF b = <<>> THEN FALSE
    ELSE IF a = <<>> THEN TRUE
    ELSE IF Head(a) # Head(b) THEN Head(a) < Head(b)
    ELSE SeqLess(Tail(a), Tail(b))

StrLess(a, b) == SeqLess(CodePoints[a], CodePoints[b])

\* The members of S in descending order.
RECURSIVE sortedDescending(_)
sortedDescending(S) ==
    IF S = {} THEN <<>>
    ELSE LET m == CHOOSE x \in S : \A y \in S \ {x} : StrLess(y, x)
         IN  <<m>> \o sortedDescending(S \ {m})

\* sorted(S) for a set of strings: the list of its members, ascending.
RECURSIVE sorted(_)
sorted(S) ==
    IF S = {} THEN <<>>
    ELSE LET m == CHOOSE x \in S : \A y \in S \ {x} : StrLess(x, y)
         IN  <<m>> \o sorted(S \ {m})

(***************************************************************************)
(* RawConfig = Mapping[str, Sequence[str] | Mapping[str, Any] | None].     *)
(* A raw config is a function from some of the three keys to a value,     *)
(* each value tagged with its Python shape.                                *)
(***************************************************************************)
Keys == {"file_types", "tools", "metadata"}

RawNone == [kind |-> "none", val |-> <<>>]
RawSeq(s) == [kind |-> "seq", val |-> s]
RawMap(m) == [kind |-> "map", val |-> m]

\* Python truthiness of a raw value: None, [] and {} are falsy.
Truthy(v) ==
    CASE v.kind = "none" -> FALSE
      [] v.kind = "seq" -> Len(v.val) > 0
      [] v.kind = "map" -> DOMAIN v.val # {}

\* GetOr without "or default": a falsy value is kept.
GetNoOr(data, key, default) ==
    IF key \in DOMAIN data THEN data[key] ELSE default

\* data.get(key, default) or default
GetOr(data, key, default) ==
    IF key \in DOMAIN data /\ Truthy(data[key]) THEN data[key] ELSE default

Range(s) == {s[i] : i \in DOMAIN s}

\* Config.from_yaml._set: the value under key as a frozenset; raises
\* TypeError when the (truthy) value is not a Sequence.
SetRaises(data, key) == GetOr(data, key, RawSeq(<<>>)).kind # "seq"
SetOf(data, key) == Range(GetOr(data, key, RawSeq(<<>>)).val)

\* Config.from_yaml._dict: the value under key as a frozendict; raises
\* TypeError when the (truthy) value is not a Mapping.
DictRaises(data, key) == GetOr(data, key, RawMap(<<>>)).kind # "map"
DictOf(data, key) == GetOr(data, key, RawMap(<<>>)).val

NoError == [type |-> "", arg |-> ""]
TypeError(key) == [type |-> "TypeError", arg |-> key]
KeyError(id) == [type |-> "KeyError", arg |-> id]

\* The exception Config.from_yaml(data) raises, NoError when it returns.
\* The fields are evaluated in the order file_types, tools, metadata.
from_yaml_error(data) ==
    IF SetRaises(data, "file_types") THEN TypeError("file_types")
    ELSE IF SetRaises(data, "tools") THEN TypeError("tools")
    ELSE IF DictRaises(data, "metadata") THEN TypeError("metadata")
    ELSE NoError

\* The Config that Config.from_yaml(data) returns when it does not raise.
from_yaml(data) ==
    [file_types |-> SetOf(data, "file_types"),
     tools |-> SetOf(data, "tools"),
     metadata |-> DictOf(data, "metadata")]

\* to_yaml leaving the metadata out.
to_yamlNoMetadata(config) ==
    [k \in Keys |->
        CASE k = "file_types" -> RawSeq(sorted(config.file_types))
          [] k = "tools" -> RawSeq(sorted(config.tools))
          [] k = "metadata" -> RawMap(<<>>)]

\* Config.to_yaml: sorted lists and a plain dict.
to_yaml(config) ==
    [k \in Keys |->
        CASE k = "file_types" -> RawSeq(sorted(config.file_types))
          [] k = "tools" -> RawSeq(sorted(config.tools))
          [] k = "metadata" -> RawMap(config.metadata)]

\* DictUnion with the left operand winning.
DictUnionLeftWins(left, right) ==
    [k \in DOMAIN left \cup DOMAIN right |->
        IF k \in DOMAIN left THEN left[k] ELSE right[k]]

\* existing.metadata | new.metadata: the right operand wins on a shared key.
DictUnion(left, right) ==
    [k \in DOMAIN left \cup DOMAIN right |->
        IF k \in DOMAIN right THEN right[k] ELSE left[k]]

\* SeedIds with the ids of new left out.
SeedIdsExistingOnly(existing_ids, new_ids) == existing_ids

\* SeedIds taking the ids of new only.
SeedIdsNewOnly(existing_ids, new_ids) == new_ids

\* Lines 929-930: set(existing.<field> | new.<field>), the seed of a
\* working set.
SeedIds(existing_ids, new_ids) == existing_ids \cup new_ids

(***************************************************************************)
(* One iteration of the loop of expand_config, lines 933-948.              *)
(***************************************************************************)
\* AddFileTypeTools looping over every file type of the Registry.
AddAllFileTypeTools(file_types, tools) ==
    tools \cup UNION {FILE_TYPES[ft].tools : ft \in FileTypeIds}

\* for file_type in new_file_types: new_tools.update(_FILE_TYPES[..].tools)
AddFileTypeTools(file_types, tools) ==
    tools \cup UNION {FILE_TYPES[ft].tools : ft \in file_types}

\* ToolsToAdd without the requires of the tools.
ToolsToAddNoRequires(tools) ==
    {TOOLS[t].installed_by : t \in {u \in tools : TOOLS[u].installed_by # None}}

\* ToolsToAdd without the installers of the tools.
ToolsToAddNoInstaller(tools) == UNION {TOOLS[t].requires : t \in tools}

\* ToolsToAdd taking requires from every tool of the Registry.
ToolsToAddAllRequires(tools) ==
    {TOOLS[t].installed_by : t \in {u \in tools : TOOLS[u].installed_by # None}}
        \cup UNION {TOOLS[t].requires : t \in ToolIds}

\* A Registry in which uv and npm are installed by each other.
installed_byEachOther(tool) ==
    IF tool = "uv" THEN "npm"
    ELSE IF tool = "npm" THEN "uv" ELSE TOOLS[tool].installed_by

\* installed_by = cls._TOOLS[tool].installed_by
installed_by(tool) == TOOLS[tool].installed_by

\* tools_to_add: installed_by (when truthy) and requires of every tool.
ToolsToAdd(tools) ==
    {installed_by(t) : t \in {u \in tools : installed_by(u) # None}}
        \cup UNION {TOOLS[t].requires : t \in tools}

\* AddConfigFileTypes adding nothing.
AddNoConfigFileTypes(file_types, tools) == file_types

\* for tool in new_tools: new_file_types.update(config_file_types)
AddConfigFileTypes(file_types, tools) ==
    file_types \cup UNION {TOOLS[t].config_file_types : t \in tools}

\* The ids whose Registry lookup raises KeyError in the iteration: a file
\* type looked up at line 937, else a tool at line 941, else at line 948.
MissingIds(file_types, tools) ==
    IF file_types \ FileTypeIds # {} THEN file_types \ FileTypeIds
    ELSE LET t1 == AddFileTypeTools(file_types, tools)
         IN  IF t1 \ ToolIds # {} THEN t1 \ ToolIds
             ELSE (t1 \cup ToolsToAdd(t1)) \ ToolIds

\* LoopBody starting from empty sets instead of copies of the current ones.
LoopBodyFromEmpty(file_types, tools) ==
    LET t1 == UNION {FILE_TYPES[ft].tools : ft \in file_types}
        t2 == t1 \cup {TOOLS[t].installed_by :
                        t \in {u \in t1 : TOOLS[u].installed_by # None}}
                 \cup UNION {TOOLS[t].requires : t \in t1}
    IN  [file_types |-> UNION {TOOLS[t].config_file_types : t \in t2},
         tools |-> t2]

\* new_file_types and new_tools at line 950, when no lookup raised.
LoopBody(file_types, tools) ==
    LET t1 == AddFileTypeTools(file_types, tools)
        t2 == t1 \cup ToolsToAdd(t1)
    IN  [file_types |-> AddConfigFileTypes(file_types, t2), tools |-> t2]

\* Stable comparing the tools only.
StableToolsOnly(body, file_types, tools) == body.tools = tools

\* Line 950: the iteration left both working sets as they were.
Stable(body, file_types, tools) ==
    body.file_types = file_types /\ body.tools = tools

(***************************************************************************)
(* re.fullmatch for the regular expressions of Tool.file_regexes.  A       *)
(* pattern is the sequence of the nodes Python's parser gives for it; a    *)
(* path is the sequence of its code points.                                *)
(***************************************************************************)
Literal(c) == [op |-> "literal", c |-> c, sub |-> <<>>]
AnyChar == [op |-> "any", c |-> 0, sub |-> <<>>]
Star(sub) == [op |-> "star", c |-> 0, sub |-> sub]
Optional(sub) == [op |-> "optional", c |-> 0, sub |-> sub]

\* "." matches every character but the newline.
Newline == 10

Regexes ==
    ("(.*/)?conftest\\.py" :>
        <<Optional(<<Star(<<AnyChar>>), Literal(47)>>), Literal(99), Literal(111), Literal(110), Literal(102), Literal(116), Literal(101), Literal(115), Literal(116), Literal(46), Literal(112), Literal(121)>>
    @@ "\\.ast_grep/.*" :>
        <<Literal(46), Literal(97), Literal(115), Literal(116), Literal(95), Literal(103), Literal(114), Literal(101), Literal(112), Literal(47), Star(<<AnyChar>>)>>
    @@ "\\.github/workflows/.*.yml" :>
        <<Literal(46), Literal(103), Literal(105), Literal(116), Literal(104), Literal(117), Literal(98), Literal(47), Literal(119), Literal(111), Literal(114), Literal(107), Literal(102), Literal(108), Literal(111), Literal(119), Literal(115), Literal(47), Star(<<AnyChar>>), AnyChar, Literal(121), Literal(109), Literal(108)>>)

\* The pattern matches the whole of s.
RECURSIVE Matches(_, _)
Matches(pattern, s) ==
    IF pattern = <<>> THEN s = <<>>
    ELSE LET h == Head(pattern)
             rest == Tail(pattern)
         IN  CASE h.op = "literal" ->
                    s # <<>> /\ Head(s) = h.c /\ Matches(rest, Tail(s))
               [] h.op = "any" ->
                    s # <<>> /\ Head(s) # Newline /\ Matches(rest, Tail(s))
               [] h.op = "optional" ->
                    Matches(h.sub \o rest, s) \/ Matches(rest, s)
               [] h.op = "star" ->
                    \/ Matches(rest, s)
                    \/ \E k \in 1..Len(s) :
                            /\ Matches(h.sub, SubSeq(s, 1, k))
                            /\ Matches(pattern, SubSeq(s, k + 1, Len(s)))

\* The paths of the repositories explored, as code points.
PathCodePoints ==
    ("foo.py" :> <<102, 111, 111, 46, 112, 121>>
    @@ "bar/bar" :> <<98, 97, 114, 47, 98, 97, 114>>
    @@ "baz.bats" :> <<98, 97, 122, 46, 98, 97, 116, 115>>
    @@ "quux" :> <<113, 117, 117, 120>>
    @@ "conftest.py" :> <<99, 111, 110, 102, 116, 101, 115, 116, 46, 112, 121>>
    @@ "tests/conftest.py" :> <<116, 101, 115, 116, 115, 47, 99, 111, 110, 102, 116, 101, 115, 116, 46, 112, 121>>
    @@ "myconftest.py" :> <<109, 121, 99, 111, 110, 102, 116, 101, 115, 116, 46, 112, 121>>
    @@ ".ast_grep/rule.yml" :> <<46, 97, 115, 116, 95, 103, 114, 101, 112, 47, 114, 117, 108, 101, 46, 121, 109, 108>>
    @@ ".github/workflows/ci.yml" :> <<46, 103, 105, 116, 104, 117, 98, 47, 119, 111, 114, 107, 102, 108, 111, 119, 115, 47, 99, 105, 46, 121, 109, 108>>
    @@ ".github/workflows/ci_yml" :> <<46, 103, 105, 116, 104, 117, 98, 47, 119, 111, 114, 107, 102, 108, 111, 119, 115, 47, 99, 105, 95, 121, 109, 108>>
    @@ "README.md" :> <<82, 69, 65, 68, 77, 69, 46, 109, 100>>)

Paths == DOMAIN PathCodePoints

\* re.fullmatch(regex, file) is not None
fullmatch(regex, file) == Matches(Regexes[regex], PathCodePoints[file])

\* sorted(files) for a set of paths.
RECURSIVE sortedPaths(_)
sortedPaths(S) ==
    IF S = {} THEN <<>>
    ELSE LET m == CHOOSE x \in S : \A y \in S \ {x} :
                        SeqLess(PathCodePoints[x], PathCodePoints[y])
         IN  <<m>> \o sortedPaths(S \ {m})

(***************************************************************************)
(* identify.tags_from_path: the tags of a path that exists, by its name,   *)
(* its mode and its first line.  For a path that does not exist it raises  *)
(* ValueError.                                                             *)
(***************************************************************************)
PythonTags == {"file", "non-executable", "text", "python"}
PlainTags == {"file", "non-executable", "text"}
YamlTags == {"file", "non-executable", "text", "yaml"}

TagsOnDisk ==
    ("foo.py" :> PythonTags
    @@ "bar/bar" :> {"file", "executable", "text", "shell", "bash"}
    @@ "baz.bats" :> {"file", "non-executable", "text", "shell", "bash", "bats"}
    @@ "quux" :> PlainTags
    @@ "conftest.py" :> PythonTags
    @@ "tests/conftest.py" :> PythonTags
    @@ "myconftest.py" :> PythonTags
    @@ ".ast_grep/rule.yml" :> YamlTags
    @@ ".github/workflows/ci.yml" :> YamlTags
    @@ ".github/workflows/ci_yml" :> PlainTags
    @@ "README.md" :> {"file", "non-executable", "text", "markdown"})

(***************************************************************************)
(* The rules of detect_config for one classified file.                     *)
(***************************************************************************)
\* FileTypeDetected asking for every tag of the file type.
FileTypeDetectedAllTags(file_type, tags) ==
    FILE_TYPES[file_type].tags \subseteq tags

\* Line 993: file_type_data.tags & tags
FileTypeDetected(file_type, tags) ==
    FILE_TYPES[file_type].tags \cap tags # {}

\* ToolDetected without the file_regexes.
ToolDetectedNoRegex(tool, file, tags, python_packages, node_packages) ==
    \/ TOOLS[tool].tags \cap tags # {}
    \/ DOMAIN TOOLS[tool].python_packages \cap python_packages # {}
    \/ DOMAIN TOOLS[tool].node_packages \cap node_packages # {}

\* Lines 997-1007: the tags, the installed packages, else the regexes.
ToolDetected(tool, file, tags, python_packages, node_packages) ==
    \/ TOOLS[tool].tags \cap tags # {}
    \/ DOMAIN TOOLS[tool].python_packages \cap python_packages # {}
    \/ DOMAIN TOOLS[tool].node_packages \cap node_packages # {}
    \/ \E regex \in TOOLS[tool].file_regexes : fullmatch(regex, file)

(***************************************************************************)
(* subprocess.run of a package-listing command, and what                   *)
(* UV.installed_python_packages and Nvm.installed_node_packages make of    *)
(* it.  stdout is empty, blank, a JSON document listing the packages of    *)
(* names, or text that is not JSON.                                        *)
(***************************************************************************)
Stdout(kind, names) == [kind |-> kind, names |-> names]

\* The command ran and exited with returncode.
Exited(returncode, stdout) ==
    [started |-> TRUE, returncode |-> returncode, stdout |-> stdout]

\* The executable was not found: subprocess.run raises.
NotStarted == [started |-> FALSE, returncode |-> 0, stdout |-> Stdout("empty", {})]

\* result.returncode == 0 and result.stdout.strip()
ListingUsable(run) ==
    run.returncode = 0 /\ run.stdout.kind \notin {"empty", "blank"}

FileNotFoundError(name) == [type |-> "FileNotFoundError", arg |-> name]
JSONDecodeError(name) == [type |-> "JSONDecodeError", arg |-> name]
CalledProcessError(name) == [type |-> "CalledProcessError", arg |-> name]

\* The exception UV.installed_python_packages raises, NoError when none.
installed_python_packages_error(run) ==
    IF ~run.started THEN FileNotFoundError("uv")
    ELSE IF ListingUsable(run) /\ run.stdout.kind = "garbage"
         THEN JSONDecodeError("uv pip list")
         ELSE NoError

\* installed_python_packages that finds nothing installed.
installed_python_packagesNone(run) == {}

\* UV.installed_python_packages when it does not raise.
installed_python_packages(run) ==
    IF ListingUsable(run) THEN run.stdout.names ELSE {}

\* The exception Nvm.installed_node_packages raises, NoError when none.
installed_node_packages_error(run) ==
    IF ~run.started THEN FileNotFoundError("bash")
    ELSE IF ListingUsable(run) /\ run.stdout.kind = "garbage"
         THEN JSONDecodeError("npm list")
         ELSE NoError

\* Nvm.installed_node_packages when it does not raise.
installed_node_packages(run) ==
    IF ListingUsable(run) THEN run.stdout.names ELSE {}

(***************************************************************************)
(* The metadata producers, ConfigExtension._METADATA.  A Python value is   *)
(* tagged with its type and written as Python prints it.                   *)
(***************************************************************************)
PyNone == [type |-> "NoneType", val |-> "None"]
PyStr(s) == [type |-> "str", val |-> s]
PyBool(b) == [type |-> "bool", val |-> IF b THEN "True" ELSE "False"]
PyInt(n) == [type |-> "int", val |-> ToString(n)]
PyList(printed) == [type |-> "list", val |-> printed]
PyDict(printed) == [type |-> "dict", val |-> printed]

\* Python truthiness of a value.
PyTruthy(v) ==
    CASE v.type = "NoneType" -> FALSE
      [] v.type = "str" -> v.val # ""
      [] v.type = "bool" -> v.val = "True"
      [] v.type = "int" -> v.val # "0"
      [] v.type = "list" -> v.val # "[]"
      [] v.type = "dict" -> v.val # "{}"

\* What a call of Metadata.get comes to: a value returned or an exception.
Returns(value) == [error |-> NoError, value |-> value]
Raises(error) == [error |-> error, value |-> PyNone]

ValueError(message) == [type |-> "ValueError", arg |-> message]

\* A TOML document is written flat: each path of keys that leads to a
\* value is mapped to that value, a table on the way being TomlTable.
TomlTable == PyDict("")

\* A file that may be missing; Toml.load gives {} for a missing file.
TomlFile(data) == [exists |-> TRUE, data |-> data]
NoTomlFile == [exists |-> FALSE, data |-> <<>>]
Toml_load(file) == IF file.exists THEN file.data ELSE <<>>

\* TomlValue.get from the i-th part of the key on: the default when a part
\* is missing, TypeError when an inner value is not a dict or the last one
\* fails _typecheck, None when the key has no parts.
RECURSIVE TomlValue_get(_, _, _, _, _)
TomlValue_get(data, key, i, default, typecheck) ==
    IF i > Len(key) THEN Returns(PyNone)
    ELSE IF SubSeq(key, 1, i) \notin DOMAIN data THEN Returns(default)
    ELSE LET v == data[SubSeq(key, 1, i)]
         IN  IF i = Len(key)
             THEN IF v.type = typecheck THEN Returns(v)
                  ELSE Raises(TypeError(key[i]))
             ELSE IF v.type # "dict" THEN Raises(TypeError(key[i]))
                  ELSE TomlValue_get(data, key, i + 1, default, typecheck)

MIN_PYTHON_VERSION == "3.12"
MAX_PYTHON_VERSION == "3.14"

\* ConfigExtension.file_type_tags(): each file type with its sorted tags.
file_type_tags ==
    PyDict("{shell: [shell], python: [pyi, python], javascript: [javascript], html: [html], css: [css], markdown: [markdown], json: [json], yaml: [yaml], toml: [toml]}")

Call(fn) ==
    [class |-> "Call", fn |-> fn, key |-> <<>>, default |-> PyNone,
     typecheck |-> ""]
StrTomlValue(key, default) ==
    [class |-> "TomlValue", fn |-> "", key |-> key, default |-> default,
     typecheck |-> "str"]
BoolTomlValue(key, default) ==
    [class |-> "TomlValue", fn |-> "", key |-> key, default |-> default,
     typecheck |-> "bool"]

METADATA ==
    ("uv_version" :> Call("UV.uv_version")
    @@ "uv_build_spec" :> Call("UV.uv_build_spec")
    @@ "template_min_allowed_python_version" :> Call("_MIN_PYTHON_VERSION")
    @@ "template_max_allowed_python_version" :> Call("_MAX_PYTHON_VERSION")
    @@ "template_allowed_python_versions" :> Call("enumerate_python_versions")
    @@ "node_version" :> Call("Nvm.node_version")
    @@ "file_type_tags" :> Call("file_type_tags")
    @@ "project_version" :>
            StrTomlValue(<<"project", "version">>, PyStr("0.0.0"))
    @@ "is_python_package" :>
            BoolTomlValue(<<"tool", "uv", "package">>, PyNone))

\* The producers in the order of the dict.
MetadataNames ==
    <<"uv_version", "uv_build_spec", "template_min_allowed_python_version",
      "template_max_allowed_python_version",
      "template_allowed_python_versions", "node_version", "file_type_tags",
      "project_version", "is_python_package">>

\* The functions behind the Call producers that read the machine: each
\* returns a string or raises.
ExternalCalls == {"uv_version", "uv_build_spec", "node_version"}

\* What the function of a Call producer comes to, failing being the set of
\* external calls that raise.
Call_get(name, failing) ==
    CASE name = "uv_version" ->
            IF name \in failing
            THEN Raises(ValueError("Can't find uv version"))
            ELSE Returns(PyStr("0.9.0"))
      [] name = "uv_build_spec" ->
            IF name \in failing
            THEN Raises(ValueError("Can't find uv build spec"))
            ELSE Returns(PyStr("foo=bar"))
      [] name = "template_min_allowed_python_version" ->
            Returns(PyStr(MIN_PYTHON_VERSION))
      [] name = "template_max_allowed_python_version" ->
            Returns(PyStr(MAX_PYTHON_VERSION))
      [] name = "template_allowed_python_versions" ->
            Returns(PyList("[3.12, 3.13, 3.14]"))
      [] name = "node_version" ->
            IF name \in failing
            THEN Raises(CalledProcessError("nvm version stable"))
            ELSE Returns(PyStr("v24.6.0"))
      [] name = "file_type_tags" -> Returns(file_type_tags)

\* m_data.get() for the producer called name.
Metadata_get(name, pyproject, failing) ==
    IF METADATA[name].class = "Call" THEN Call_get(name, failing)
    ELSE TomlValue_get(Toml_load(pyproject), METADATA[name].key, 1,
                       METADATA[name].default, METADATA[name].typecheck)

\* MetadataStored by truthiness.
MetadataStoredIfTruthy(data) == PyTruthy(data)

\* Line 1012: data is not None
MetadataStored(data) == data # PyNone

(***************************************************************************)
(* ConfigExtension._packages behind python_packages and node_packages.     *)
(***************************************************************************)
\* The keys of _TOOLS in the order of the dict.
ToolOrder ==
    <<"uv", "copier", "pre-commit", "python-license-checker", "npm",
      "node-license-checker", "prettier", "shellcheck", "shfmt", "bats",
      "ruff", "mypy", "pytest", "eslint", "htmlvalidate", "stylelint",
      "markdownlint", "yamllint", "tombi", "ast-grep", "typos",
      "bump-my-version", "gitleaks", "github-actions", "actionlint",
      "zizmor", "gha-update", "gitlint">>

Ecosystems == {"python", "node"}

\* The selector that gives the python packages whatever the ecosystem.
selectorPythonOnly(ecosystem, tool) == TOOLS[tool].python_packages

\* A selector by which every tool pins its own version of one shared
\* package, next to the packages it declares.
selectorSharedPackage(ecosystem, tool) ==
    DictUnion(IF ecosystem = "python" THEN TOOLS[tool].python_packages
              ELSE TOOLS[tool].node_packages,
              "setuptools" :> tool)

\* Lines 1039 and 1043: lambda d: d.python_packages, lambda d: d.node_packages
selector(ecosystem, tool) ==
    IF ecosystem = "python" THEN TOOLS[tool].python_packages
    ELSE TOOLS[tool].node_packages

(***************************************************************************)
(* The calls of expand_config that are explored.                           *)
(***************************************************************************)
\* The greatest number of ids the lists of one call hold between them
\* (in SeedChoices).
MaxSeed == 2

\* A field that the raw config does not have (used only to build one).
Absent == [kind |-> "absent", val |-> <<>>]

Raw(file_types, tools, metadata) ==
    LET all == ("file_types" :> file_types @@ "tools" :> tools
                    @@ "metadata" :> metadata)
    IN  [k \in {j \in Keys : all[j].kind # "absent"} |-> all[k]]

\* {} : a raw config without any key.
EmptyRaw == Raw(Absent, Absent, Absent)

RECURSIVE Reverse(_)
Reverse(s) == IF s = <<>> THEN <<>> ELSE Reverse(Tail(s)) \o <<Head(s)>>

\* A list holding the members of S (in descending order), no key for {}.
ListOf(S) == IF S = {} THEN Absent ELSE RawSeq(Reverse(sorted(S)))

\* <<argument, key, id>>: id is listed under key of that argument.
SeedSlots ==
    ({"new", "existing"} \X {"file_types"} \X (FileTypeIds \cup UnknownIds))
        \cup ({"new", "existing"} \X {"tools"} \X (ToolIds \cup UnknownIds))

RECURSIVE SetToSeq(_)
SetToSeq(S) ==
    IF S = {} THEN <<>>
    ELSE LET x == CHOOSE y \in S : TRUE IN <<x>> \o SetToSeq(S \ {x})

SlotSeq == SetToSeq(SeedSlots)

\* A choice of at most MaxSeed slots: the numbers of the chosen slots in
\* ascending order, then 0 for every slot not used.
SeedChoices ==
    {f \in [1..MaxSeed -> 0..Len(SlotSeq)] :
        \A i \in 1..(MaxSeed - 1) :
            f[i + 1] = 0 \/ (f[i] # 0 /\ f[i] < f[i + 1])}

ChosenSlots(f) == {SlotSeq[f[i]] : i \in {j \in 1..MaxSeed : f[j] # 0}}

SlotIds(slots, arg, key) == {s[3] : s \in {u \in slots : u[1] = arg /\ u[2] = key}}

SlotRaw(slots, arg) ==
    Raw(ListOf(SlotIds(slots, arg, "file_types")),
        ListOf(SlotIds(slots, arg, "tools")), Absent)

MetaKeys == {"foo", "k"}
MetaVals == {"old", "new"}
MetaDicts == UNION {[D -> MetaVals] : D \in SUBSET MetaKeys}

\* Every shape of the metadata field: missing, None, a dict, a list.
MetaShapes ==
    {Absent, RawNone, RawSeq(<<>>), RawSeq(<<"foo">>)}
        \cup {RawMap(m) : m \in MetaDicts}

MetaInputs ==
    {[new |-> Raw(Absent, Absent, mn), existing |-> Raw(ft, t, me)] :
        mn \in MetaShapes, me \in MetaShapes,
        ft \in {Absent, RawSeq(<<"shell">>)},
        t \in {Absent, RawSeq(<<"pre-commit">>)}}

\* Every shape of a list field: missing, None, a list, a dict.
ListShapes(id) ==
    {Absent, RawNone, RawSeq(<<>>), RawSeq(<<id>>), RawSeq(<<id, id>>),
     RawMap(<<>>), RawMap(id :> "x")}

ShapeInputs ==
    {[new |-> Raw(nf, nt, Absent), existing |-> Raw(ef, et, Absent)] :
        nf \in ListShapes("toml"), nt \in ListShapes("shfmt"),
        ef \in ListShapes("shell"), et \in ListShapes("actionlint")}

\* The calls of TestConfigExtension.test_expand_config, and the call with
\* every field None.
TestInputs ==
    {[new |-> EmptyRaw, existing |-> EmptyRaw],
     [new |-> Raw(RawNone, Absent, RawNone),
      existing |-> Raw(Absent, RawNone, Absent)],
     [new |-> Raw(RawNone, RawNone, RawNone), existing |-> EmptyRaw],
     [new |-> EmptyRaw,
      existing |-> Raw(RawSeq(<<"shell">>), RawSeq(<<"pre-commit">>),
                       RawMap("foo" :> "bar"))],
     [new |-> Raw(RawSeq(<<"markdown">>), RawSeq(<<"pytest">>),
                  RawMap("baz" :> "2")),
      existing |-> Raw(RawSeq(<<"shell">>), RawSeq(<<"pre-commit">>),
                       RawMap("foo" :> "bar"))]}

Inputs == MetaInputs \cup ShapeInputs \cup TestInputs

(***************************************************************************)
(* The repositories and machines detect_config is run on.                  *)
(***************************************************************************)
\* The greatest number of files git lists in the repositories explored
MaxFiles == 2

\* A working tree: the paths git lists, and those of them that are not on
\* disk (deleted but still in the index), which identify cannot classify.
Tree(files, missing) == [files |-> files, missing |-> missing]

PathSeq == sortedPaths(Paths)

\* The ways to pick at most MaxFiles paths, each on disk or not: slot i
\* holds the index of a path, ascending, or 0.
TreeChoices ==
    {c \in [1..MaxFiles -> [path : 0..Len(PathSeq), missing : BOOLEAN]] :
        /\ \A i \in 1..MaxFiles : c[i].path = 0 => ~c[i].missing
        /\ \A i \in 1..(MaxFiles - 1) :
                c[i + 1].path = 0
                    \/ (c[i].path # 0 /\ c[i].path < c[i + 1].path)}

ChosenTree(c) ==
    Tree({PathSeq[c[i].path] : i \in {j \in 1..MaxFiles : c[j].path # 0}},
         {PathSeq[c[i].path] : i \in {j \in 1..MaxFiles : c[j].missing}})

EmptyTree == Tree({}, {})

\* The files of TestConfigExtension.test_detect_config; quux is listed by
\* git but is not on disk.
TestTree ==
    Tree({"foo.py", "bar/bar", "baz.bats", "quux", "conftest.py"}, {"quux"})

\* The pyproject.toml of the same test.
TestPyproject ==
    TomlFile(<<"project">> :> TomlTable
             @@ <<"project", "version">> :> PyStr("1.2.3")
             @@ <<"tool">> :> TomlTable
             @@ <<"tool", "uv">> :> TomlTable
             @@ <<"tool", "uv", "package">> :> PyBool(FALSE))

\* No file, an empty file, the file of the test, and files that lack one
\* of the two values or hold a value of another type.
Pyprojects ==
    {NoTomlFile,
     TomlFile(<<>>),
     TestPyproject,
     TomlFile(<<"project">> :> TomlTable
              @@ <<"project", "version">> :> PyStr("1.2.3")),
     TomlFile(<<"tool">> :> TomlTable
              @@ <<"tool", "uv">> :> TomlTable
              @@ <<"tool", "uv", "package">> :> PyBool(TRUE)),
     TomlFile(<<"tool">> :> TomlTable @@ <<"tool", "uv">> :> TomlTable),
     TomlFile(<<"project">> :> PyStr("x")),
     TomlFile(<<"project">> :> TomlTable
              @@ <<"project", "version">> :> PyInt(1))}

\* What "uv pip list --format=json" may come to.
PythonListings ==
    {NotStarted,
     Exited(1, Stdout("empty", {})),
     Exited(1, Stdout("garbage", {})),
     Exited(1, Stdout("json", {"mypy"})),
     Exited(0, Stdout("empty", {})),
     Exited(0, Stdout("blank", {})),
     Exited(0, Stdout("garbage", {})),
     Exited(0, Stdout("json", {})),
     Exited(0, Stdout("json", {"mypy"})),
     Exited(0, Stdout("json", {"pytest", "requests"}))}

\* What "nvm exec --silent npm list --json" may come to.
NodeListings ==
    {NotStarted,
     Exited(1, Stdout("empty", {})),
     Exited(1, Stdout("garbage", {})),
     Exited(1, Stdout("json", {"prettier"})),
     Exited(0, Stdout("empty", {})),
     Exited(0, Stdout("blank", {})),
     Exited(0, Stdout("garbage", {})),
     Exited(0, Stdout("json", {})),
     Exited(0, Stdout("json", {"prettier"})),
     Exited(0, Stdout("json", {"bats", "left-pad"}))}

Repo(git_returncode, tree, uv_pip_list, npm_list, pyproject, failing) ==
    [git_returncode |-> git_returncode,
     files |-> tree.files,
     missing |-> tree.missing,
     uv_pip_list |-> uv_pip_list,
     npm_list |-> npm_list,
     pyproject |-> pyproject,
     failing |-> failing]

NoRepo ==
    Repo(0, EmptyTree, Exited(0, Stdout("empty", {})),
         Exited(0, Stdout("empty", {})), NoTomlFile, {})

\* Every tree of at most MaxFiles files, with nothing installed and with
\* the packages of the test installed.
ScanRepos ==
    {Repo(0, ChosenTree(c), l.uv, l.npm, TestPyproject, {}) :
        c \in TreeChoices,
        l \in {[uv |-> Exited(0, Stdout("json", {})),
                npm |-> Exited(0, Stdout("json", {}))],
               [uv |-> Exited(0, Stdout("json", {"mypy"})),
                npm |-> Exited(0, Stdout("json", {"prettier"}))]}}

\* Every outcome of the two listing commands.
ListingRepos ==
    {Repo(0, t, uv, npm, TestPyproject, {}) :
        t \in {EmptyTree, Tree({"foo.py"}, {}), TestTree},
        uv \in PythonListings, npm \in NodeListings}

\* Every pyproject.toml and every set of failing external calls.
MetadataRepos ==
    {Repo(0, t, Exited(0, Stdout("json", {"mypy"})),
          Exited(0, Stdout("json", {"prettier"})), p, failing) :
        t \in {EmptyTree, TestTree}, p \in Pyprojects,
        failing \in SUBSET ExternalCalls}

\* git ls-files exits with an error (not a git repository).
GitFailureRepos ==
    {Repo(128, EmptyTree, Exited(0, Stdout("json", {})),
          Exited(0, Stdout("json", {})), p, {}) :
        p \in {NoTomlFile, TestPyproject}}

Repos == ScanRepos \cup ListingRepos \cup MetadataRepos \cup GitFailureRepos

(***************************************************************************)
(* The configs python_packages and node_packages are called on.            *)
(***************************************************************************)
\* The greatest number of ids in the tools list of a projected config
MaxTools == 2

IdSeq == ToolOrder \o SetToSeq(UnknownIds)

ToolChoices ==
    {f \in [1..MaxTools -> 0..Len(IdSeq)] :
        \A i \in 1..(MaxTools - 1) :
            f[i + 1] = 0 \/ (f[i] # 0 /\ f[i] < f[i + 1])}

ChosenTools(f) == {IdSeq[f[i]] : i \in {j \in 1..MaxTools : f[j] # 0}}

\* Configs with at most MaxTools tools, known or not, with and without a
\* file type; and the shapes of the tools field.
ProjectionConfigs ==
    {Raw(ft, ListOf(ChosenTools(f)), Absent) :
        f \in ToolChoices, ft \in {Absent, RawSeq(<<"python">>)}}
    \cup {Raw(Absent, t, m) :
            t \in ListShapes("pytest"),
            m \in {Absent, RawSeq(<<"foo">>)}}

(***************************************************************************)
(* The state of one call of expand_config(new_raw, existing_raw).          *)
(***************************************************************************)
VARIABLES
    new_raw,             \* the arguments of the call
    existing_raw,
    chained,             \* the arguments are (the last result, {})
    pc,                  \* "call", "loop", "done" or "raised"
    new,                 \* Config.from_yaml(new_raw)
    existing,            \* Config.from_yaml(existing_raw)
    current_file_types,
    current_tools,
    iterations,          \* iterations of "while True" begun so far
    result,              \* the RawConfig returned
    raised               \* the exception that left the call

expand_vars ==
    <<new_raw, existing_raw, chained, pc, new, existing,
      current_file_types, current_tools, iterations, result, raised>>

VARIABLES
    repo,                \* the repository and machine detect_config runs on
    detect,              \* the state of one call of detect_config
    projection           \* the state of one call of _packages

VARIABLES
    shared,              \* the argument objects that concurrent calls share
    passed,              \* what those objects held when the calls began
    calls,               \* the local state of each of the concurrent calls
    chaotic,             \* the edge rules applied one at a time, in any order
    roundtrip,           \* from_yaml and to_yaml applied one after the other
    version              \* the state of one call of UV.python_version

added_vars == <<shared, passed, calls, chaotic, roundtrip, version>>

vars == <<expand_vars, repo, detect, projection, added_vars>>

NoConfig == [file_types |-> {}, tools |-> {}, metadata |-> <<>>]
NoResult == <<>>

\* detect_config and _packages while no call of them is under way.
NoDetect ==
    [pc |-> "idle",
     files |-> <<>>,
     python_packages |-> {},
     node_packages |-> {},
     file_types |-> {},
     tools |-> {},
     scanned |-> 0,
     metadata |-> <<>>,
     queried |-> [name \in DOMAIN METADATA |-> 0],
     returned |-> <<>>,
     result |-> NoResult,
     raised |-> NoError]

NoProjection ==
    [pc |-> "idle",
     config |-> EmptyRaw,
     ecosystem |-> "python",
     tools |-> {},
     visited |-> 0,
     out |-> <<>>,
     raised |-> NoError]

NoShared == [new |-> EmptyRaw, existing |-> EmptyRaw]
NoCalls == <<>>
NoChaotic ==
    [pc |-> "idle", seed_file_types |-> {}, seed_tools |-> {},
     file_types |-> {}, tools |-> {}]
NoRoundtrip ==
    [pc |-> "idle", first |-> "", config |-> NoConfig, raw |-> EmptyRaw,
     yaml |-> EmptyRaw, back |-> NoConfig, raised |-> NoError]
NoVersion ==
    [pc |-> "idle", hint |-> <<>>, file |-> [exists |-> FALSE, content |-> <<>>],
     listing |-> [returncode |-> 0, versions |-> <<>>],
     existing |-> <<>>, result |-> <<>>, raised |-> NoError]

ConcurrentIdle == shared = NoShared /\ passed = NoShared /\ calls = NoCalls
ChaoticIdle == chaotic = NoChaotic
RoundtripIdle == roundtrip = NoRoundtrip
VersionIdle == version = NoVersion
AddedIdle == ConcurrentIdle /\ ChaoticIdle /\ RoundtripIdle /\ VersionIdle

\* The state on entry to expand_config.
Entry(n, e, c) ==
    /\ new_raw = n
    /\ existing_raw = e
    /\ chained = c
    /\ pc = "call"
    /\ new = NoConfig
    /\ existing = NoConfig
    /\ current_file_types = {}
    /\ current_tools = {}
    /\ iterations = 0
    /\ result = NoResult
    /\ raised = NoError

\* A call with well-formed lists of at most MaxSeed ids, known or not, split
\* between the two arguments in every way and without metadata; or a call
\* of Inputs.
Init ==
    /\ \/ \E f \in SeedChoices :
            Entry(SlotRaw(ChosenSlots(f), "new"),
                  SlotRaw(ChosenSlots(f), "existing"), FALSE)
       \/ \E in \in Inputs : Entry(in.new, in.existing, FALSE)
    /\ repo = NoRepo
    /\ detect = NoDetect
    /\ projection = NoProjection
    /\ AddedIdle

\* Lines 927-928: from_yaml of new_raw, then of existing_raw, raises.
FromYamlRaises ==
    /\ pc = "call"
    /\ from_yaml_error(new_raw) # NoError \/ from_yaml_error(existing_raw) # NoError
    /\ raised' = IF from_yaml_error(new_raw) # NoError
                 THEN from_yaml_error(new_raw)
                 ELSE from_yaml_error(existing_raw)
    /\ pc' = "raised"
    /\ UNCHANGED <<new_raw, existing_raw, chained, new, existing,
                   current_file_types, current_tools, iterations, result,
                   repo, detect, projection,
                   added_vars>>

\* Lines 927-930: both arguments parse; the working sets are seeded.
Seed ==
    /\ pc = "call"
    /\ from_yaml_error(new_raw) = NoError
    /\ from_yaml_error(existing_raw) = NoError
    /\ new' = from_yaml(new_raw)
    /\ existing' = from_yaml(existing_raw)
    /\ current_file_types' = SeedIds(existing'.file_types, new'.file_types)
    /\ current_tools' = SeedIds(existing'.tools, new'.tools)
    /\ pc' = "loop"
    /\ UNCHANGED <<new_raw, existing_raw, chained, iterations, result, raised,
                   repo, detect, projection,
                   added_vars>>

\* IterationRaises with the KeyError swallowed: the working sets are
\* returned as they are, the unknown ids among them.
IterationKeepsUnknown ==
    /\ pc = "loop"
    /\ MissingIds(current_file_types, current_tools) # {}
    /\ result' = to_yaml([file_types |-> current_file_types,
                          tools |-> current_tools,
                          metadata |-> DictUnion(existing.metadata,
                                                 new.metadata)])
    /\ iterations' = iterations + 1
    /\ pc' = "done"
    /\ UNCHANGED <<new_raw, existing_raw, chained, new, existing,
                   current_file_types, current_tools, raised,
                   repo, detect, projection,
                   added_vars>>

\* Lines 936-948: a Registry lookup of the iteration raises KeyError.
IterationRaises ==
    /\ pc = "loop"
    /\ \E id \in MissingIds(current_file_types, current_tools) :
            raised' = KeyError(id)
    /\ iterations' = iterations + 1
    /\ pc' = "raised"
    /\ UNCHANGED <<new_raw, existing_raw, chained, new, existing,
                   current_file_types, current_tools, result,
                   repo, detect, projection,
                   added_vars>>

\* Lines 950-955: the iteration added nothing; the Config is returned.
IterationReturns ==
    /\ pc = "loop"
    /\ MissingIds(current_file_types, current_tools) = {}
    /\ LET body == LoopBody(current_file_types, current_tools)
       IN  /\ Stable(body, current_file_types, current_tools)
           /\ result' = to_yaml([file_types |-> body.file_types,
                                 tools |-> body.tools,
                                 metadata |-> DictUnion(existing.metadata,
                                                        new.metadata)])
    /\ iterations' = iterations + 1
    /\ pc' = "done"
    /\ UNCHANGED <<new_raw, existing_raw, chained, new, existing,
                   current_file_types, current_tools, raised,
                   repo, detect, projection,
                   added_vars>>

\* Lines 957-958: the iteration added something; the loop goes on.
IterationContinues ==
    /\ pc = "loop"
    /\ MissingIds(current_file_types, current_tools) = {}
    /\ LET body == LoopBody(current_file_types, current_tools)
       IN  /\ ~Stable(body, current_file_types, current_tools)
           /\ current_file_types' = body.file_types
           /\ current_tools' = body.tools
    /\ iterations' = iterations + 1
    /\ UNCHANGED <<new_raw, existing_raw, chained, pc, new, existing,
                   result, raised,
                   repo, detect, projection,
                   added_vars>>

\* The caller expands the returned config again: expand_config(result, {}).
Reexpand ==
    /\ pc = "done"
    /\ ~chained
    /\ new_raw' = result
    /\ existing_raw' = EmptyRaw
    /\ chained' = TRUE
    /\ pc' = "call"
    /\ new' = NoConfig
    /\ existing' = NoConfig
    /\ current_file_types' = {}
    /\ current_tools' = {}
    /\ iterations' = 0
    /\ result' = NoResult
    /\ raised' = NoError
    /\ UNCHANGED <<repo, detect, projection,
                   added_vars>>

Next ==
    \/ FromYamlRaises
    \/ Seed
    \/ IterationRaises
    \/ IterationReturns
    \/ IterationContinues
    \/ Reexpand

Spec == Init /\ [][Next]_vars

(***************************************************************************)
(* detect_config, run on repo.                                             *)
(***************************************************************************)
\* The expand_config variables while no call of it is under way.
ExpandIdle ==
    /\ new_raw = EmptyRaw
    /\ existing_raw = EmptyRaw
    /\ chained = FALSE
    /\ pc = "idle"
    /\ new = NoConfig
    /\ existing = NoConfig
    /\ current_file_types = {}
    /\ current_tools = {}
    /\ iterations = 0
    /\ result = NoResult
    /\ raised = NoError

\* The state on entry to detect_config in one of the repositories.
DetectInit ==
    /\ ExpandIdle
    /\ projection = NoProjection
    /\ repo \in Repos
    /\ detect = [NoDetect EXCEPT !.pc = "git"]
    /\ AddedIdle

\* Where the call goes once n files are scanned.
AfterScanning(n) == IF n < Len(detect.files) THEN "scan" ELSE "metadata"

\* Lines 969-978: git ls-files, check=True, and the sorted list of its lines.
DetectListFiles ==
    /\ detect.pc = "git"
    /\ repo.git_returncode = 0
    /\ detect' = [detect EXCEPT !.files = sortedPaths(repo.files),
                                !.pc = "uv"]
    /\ UNCHANGED <<expand_vars, repo, projection,
                   added_vars>>

\* Lines 969-975: git ls-files fails; subprocess.run raises.
DetectListFilesRaises ==
    /\ detect.pc = "git"
    /\ repo.git_returncode # 0
    /\ detect' = [detect EXCEPT !.raised = CalledProcessError("git ls-files"),
                                !.pc = "raised"]
    /\ UNCHANGED <<expand_vars, repo, projection,
                   added_vars>>

\* Line 980: python_packages = UV.installed_python_packages()
DetectPythonPackages ==
    /\ detect.pc = "uv"
    /\ installed_python_packages_error(repo.uv_pip_list) = NoError
    /\ detect' = [detect EXCEPT
            !.python_packages = installed_python_packages(repo.uv_pip_list),
            !.pc = "npm"]
    /\ UNCHANGED <<expand_vars, repo, projection,
                   added_vars>>

\* Line 980: UV.installed_python_packages raises.
DetectPythonPackagesRaises ==
    /\ detect.pc = "uv"
    /\ installed_python_packages_error(repo.uv_pip_list) # NoError
    /\ detect' = [detect EXCEPT
            !.raised = installed_python_packages_error(repo.uv_pip_list),
            !.pc = "raised"]
    /\ UNCHANGED <<expand_vars, repo, projection,
                   added_vars>>

\* Line 981: node_packages = Nvm.installed_node_packages()
DetectNodePackages ==
    /\ detect.pc = "npm"
    /\ installed_node_packages_error(repo.npm_list) = NoError
    /\ detect' = [detect EXCEPT
            !.node_packages = installed_node_packages(repo.npm_list),
            !.pc = AfterScanning(0)]
    /\ UNCHANGED <<expand_vars, repo, projection,
                   added_vars>>

\* Line 981: Nvm.installed_node_packages raises.
DetectNodePackagesRaises ==
    /\ detect.pc = "npm"
    /\ installed_node_packages_error(repo.npm_list) # NoError
    /\ detect' = [detect EXCEPT
            !.raised = installed_node_packages_error(repo.npm_list),
            !.pc = "raised"]
    /\ UNCHANGED <<expand_vars, repo, projection,
                   added_vars>>

\* A loop that matches the path against the file_regexes before it asks
\* identify for the tags, so that a file it cannot classify still counts.
DetectSkipFileAfterRegexes ==
    /\ detect.pc = "scan"
    /\ detect.files[detect.scanned + 1] \in repo.missing
    /\ LET file == detect.files[detect.scanned + 1]
       IN  detect' = [detect EXCEPT
                !.tools = @ \cup
                    {t \in ToolIds :
                        \E regex \in TOOLS[t].file_regexes :
                            fullmatch(regex, file)},
                !.scanned = @ + 1,
                !.pc = AfterScanning(detect.scanned + 1)]
    /\ UNCHANGED <<expand_vars, repo, projection,
                   added_vars>>

\* Lines 986-990: identify cannot classify the next file; it is skipped.
DetectSkipFile ==
    /\ detect.pc = "scan"
    /\ detect.files[detect.scanned + 1] \in repo.missing
    /\ detect' = [detect EXCEPT !.scanned = @ + 1,
                                !.pc = AfterScanning(detect.scanned + 1)]
    /\ UNCHANGED <<expand_vars, repo, projection,
                   added_vars>>

\* Lines 986-1007: the next file is classified; the file types and the
\* tools it gives are added.
DetectScanFile ==
    /\ detect.pc = "scan"
    /\ detect.files[detect.scanned + 1] \notin repo.missing
    /\ LET file == detect.files[detect.scanned + 1]
           tags == TagsOnDisk[file]
       IN  detect' = [detect EXCEPT
                !.file_types = @ \cup
                    {ft \in FileTypeIds : FileTypeDetected(ft, tags)},
                !.tools = @ \cup
                    {t \in ToolIds :
                        ToolDetected(t, file, tags, detect.python_packages,
                                     detect.node_packages)},
                !.scanned = @ + 1,
                !.pc = AfterScanning(detect.scanned + 1)]
    /\ UNCHANGED <<expand_vars, repo, projection,
                   added_vars>>

\* The producer queried next, in the order of _METADATA.
NextProducer ==
    MetadataNames[1 + Cardinality({n \in DOMAIN METADATA :
                                        n \in DOMAIN detect.returned})]

AfterQuery ==
    IF Cardinality(DOMAIN detect.returned) + 1 < Len(MetadataNames)
    THEN "metadata" ELSE "return"

\* Lines 1010-1013: the next producer returns; its value is stored unless
\* it is None.
DetectQueryProducer ==
    /\ detect.pc = "metadata"
    /\ LET name == NextProducer
           got == Metadata_get(name, repo.pyproject, repo.failing)
       IN  /\ got.error = NoError
           /\ detect' = [detect EXCEPT
                    !.queried[name] = @ + 1,
                    !.returned = DictUnion(@, name :> got.value),
                    !.metadata = IF MetadataStored(got.value)
                                 THEN DictUnion(@, name :> got.value)
                                 ELSE @,
                    !.pc = AfterQuery]
    /\ UNCHANGED <<expand_vars, repo, projection,
                   added_vars>>

\* Line 1011: the next producer raises.
DetectProducerRaises ==
    /\ detect.pc = "metadata"
    /\ LET name == NextProducer
           got == Metadata_get(name, repo.pyproject, repo.failing)
       IN  /\ got.error # NoError
           /\ detect' = [detect EXCEPT !.queried[name] = @ + 1,
                                       !.raised = got.error,
                                       !.pc = "raised"]
    /\ UNCHANGED <<expand_vars, repo, projection,
                   added_vars>>

\* Lines 1015-1019: the Config is built and serialised.
DetectReturns ==
    /\ detect.pc = "return"
    /\ detect' = [detect EXCEPT
            !.result = to_yaml([file_types |-> detect.file_types,
                                tools |-> detect.tools,
                                metadata |-> detect.metadata]),
            !.pc = "done"]
    /\ UNCHANGED <<expand_vars, repo, projection,
                   added_vars>>

DetectNext ==
    \/ DetectListFiles
    \/ DetectListFilesRaises
    \/ DetectPythonPackages
    \/ DetectPythonPackagesRaises
    \/ DetectNodePackages
    \/ DetectNodePackagesRaises
    \/ DetectSkipFile
    \/ DetectScanFile
    \/ DetectQueryProducer
    \/ DetectProducerRaises
    \/ DetectReturns

SpecDetect == DetectInit /\ [][DetectNext]_vars

(***************************************************************************)
(* One call of python_packages(config) or node_packages(config).           *)
(***************************************************************************)
\* The state on entry to python_packages(config) or node_packages(config).
PackagesInit ==
    /\ ExpandIdle
    /\ repo = NoRepo
    /\ detect = NoDetect
    /\ \E config \in ProjectionConfigs : \E ecosystem \in Ecosystems :
            projection = [NoProjection EXCEPT !.pc = "call",
                                               !.config = config,
                                               !.ecosystem = ecosystem]
    /\ AddedIdle

\* Line 1030: Config.from_yaml(config) raises.
PackagesFromYamlRaises ==
    /\ projection.pc = "call"
    /\ from_yaml_error(projection.config) # NoError
    /\ projection' = [projection EXCEPT
            !.raised = from_yaml_error(projection.config),
            !.pc = "raised"]
    /\ UNCHANGED <<expand_vars, repo, detect,
                   added_vars>>

\* PackagesParse that looks every listed tool up in _TOOLS, raising
\* KeyError for one that is not there.
PackagesParseLooksUp ==
    /\ projection.pc = "call"
    /\ from_yaml_error(projection.config) = NoError
    /\ LET tools == from_yaml(projection.config).tools
       IN  IF tools \subseteq ToolIds
           THEN projection' = [projection EXCEPT !.tools = tools,
                                                  !.pc = "loop"]
           ELSE \E id \in tools \ ToolIds :
                    projection' = [projection EXCEPT !.raised = KeyError(id),
                                                      !.pc = "raised"]
    /\ UNCHANGED <<expand_vars, repo, detect,
                   added_vars>>

\* Lines 1030-1031: tools = Config.from_yaml(config).tools; out = {}
PackagesParse ==
    /\ projection.pc = "call"
    /\ from_yaml_error(projection.config) = NoError
    /\ projection' = [projection EXCEPT
            !.tools = from_yaml(projection.config).tools,
            !.pc = "loop"]
    /\ UNCHANGED <<expand_vars, repo, detect,
                   added_vars>>

\* Lines 1032-1033: the next tool of _TOOLS is not in tools.
PackagesSkipTool ==
    /\ projection.pc = "loop"
    /\ projection.visited < Len(ToolOrder)
    /\ ToolOrder[projection.visited + 1] \notin projection.tools
    /\ projection' = [projection EXCEPT !.visited = @ + 1]
    /\ UNCHANGED <<expand_vars, repo, detect,
                   added_vars>>

\* Lines 1032-1034: the next tool of _TOOLS is in tools;
\* out.update(selector(data))
PackagesAddTool ==
    /\ projection.pc = "loop"
    /\ projection.visited < Len(ToolOrder)
    /\ ToolOrder[projection.visited + 1] \in projection.tools
    /\ projection' = [projection EXCEPT
            !.out = DictUnion(@, selector(projection.ecosystem,
                                          ToolOrder[projection.visited + 1])),
            !.visited = @ + 1]
    /\ UNCHANGED <<expand_vars, repo, detect,
                   added_vars>>

\* Line 1035: return out
PackagesReturns ==
    /\ projection.pc = "loop"
    /\ projection.visited = Len(ToolOrder)
    /\ projection' = [projection EXCEPT !.pc = "done"]
    /\ UNCHANGED <<expand_vars, repo, detect,
                   added_vars>>

PackagesNext ==
    \/ PackagesFromYamlRaises
    \/ PackagesParse
    \/ PackagesSkipTool
    \/ PackagesAddTool
    \/ PackagesReturns

SpecPackages == PackagesInit /\ [][PackagesNext]_vars


(***************************************************************************)
(* What the claims speak of.                                               *)
(***************************************************************************)
Returned == pc = "done"

ResultFileTypes == Range(result["file_types"].val)
ResultTools == Range(result["tools"].val)
ResultMetadata == result["metadata"].val

\* Neither argument makes Config.from_yaml raise.
WellFormed ==
    from_yaml_error(new_raw) = NoError /\ from_yaml_error(existing_raw) = NoError

SeededFileTypes ==
    SetOf(new_raw, "file_types") \cup SetOf(existing_raw, "file_types")
SeededTools == SetOf(new_raw, "tools") \cup SetOf(existing_raw, "tools")

\* Every id of the input is in the Registry.
KnownIds == SeededFileTypes \subseteq FileTypeIds /\ SeededTools \subseteq ToolIds

\* C1: the result of expand_config on known ids is closed under the
\* Registry's edges: the tools of each of its file types, and the installer,
\* the required tools and the config file types of each of its tools, are
\* in it.
ResultClosed ==
    (Returned /\ KnownIds) =>
        /\ \A ft \in ResultFileTypes : FILE_TYPES[ft].tools \subseteq ResultTools
        /\ \A t \in ResultTools :
            /\ TOOLS[t].installed_by # None => TOOLS[t].installed_by \in ResultTools
            /\ TOOLS[t].requires \subseteq ResultTools
            /\ TOOLS[t].config_file_types \subseteq ResultFileTypes

\* A call seeded with github-actions alone returned, and the result holds a
\* tool two requires/installed_by edges away.
ResultClosedWitness ==
    /\ Returned
    /\ ~chained
    /\ SeededFileTypes = {}
    /\ SeededTools = {"github-actions"}
    /\ {"actionlint", "uv", "python-license-checker"} \subseteq ResultTools
    /\ "yaml" \in ResultFileTypes

\* The Registry's edges over nodes <<"file_type", id>> and <<"tool", id>>.
Successors(n) ==
    IF n[1] = "file_type"
    THEN {<<"tool", t>> : t \in FILE_TYPES[n[2]].tools}
    ELSE {<<"tool", t>> : t \in TOOLS[n[2]].requires}
            \cup {<<"tool", t>> : t \in {TOOLS[n[2]].installed_by} \ {None}}
            \cup {<<"file_type", f>> : f \in TOOLS[n[2]].config_file_types}

\* The nodes that a chain of edges reaches from a node of N.
RECURSIVE ReachableFrom(_)
ReachableFrom(N) ==
    LET more == N \cup UNION {Successors(n) : n \in N}
    IN  IF more = N THEN N ELSE ReachableFrom(more)

SeededNodes ==
    {<<"file_type", f>> : f \in SeededFileTypes}
        \cup {<<"tool", t>> : t \in SeededTools}

\* C2: every file type and every tool of the result is seeded or reached
\* from a seeded id by a chain of Registry edges; nothing else is added.
ResultSmallest ==
    (Returned /\ KnownIds) =>
        ({<<"file_type", f>> : f \in ResultFileTypes}
            \cup {<<"tool", t>> : t \in ResultTools})
                \subseteq ReachableFrom(SeededNodes)

\* A call seeded with the toml file type alone returned a result that is
\* larger than the seed and smaller than the Registry.
ResultSmallestWitness ==
    /\ Returned
    /\ SeededFileTypes = {"toml"}
    /\ SeededTools = {}
    /\ "tombi" \in ResultTools
    /\ "markdownlint" \notin ResultTools
    /\ "markdown" \notin ResultFileTypes

\* C3: the result holds every file type and every tool of both arguments.
Monotonic ==
    (Returned /\ KnownIds) =>
        /\ SetOf(new_raw, "file_types") \subseteq ResultFileTypes
        /\ SetOf(existing_raw, "file_types") \subseteq ResultFileTypes
        /\ SetOf(new_raw, "tools") \subseteq ResultTools
        /\ SetOf(existing_raw, "tools") \subseteq ResultTools

\* A call with an id in new and another in existing returned more than
\* it was given.
MonotonicWitness ==
    /\ Returned
    /\ SetOf(new_raw, "tools") = {"gitleaks"}
    /\ SetOf(existing_raw, "file_types") = {"css"}
    /\ ResultTools # SeededTools

\* C4: expanding the result of expand_config(C, {}) again, with {} as
\* existing, returns it unchanged: file_types, tools and metadata.
Idempotent == (Returned /\ chained) => result = new_raw

\* The second expansion of a config with tools and metadata returned.
IdempotentWitness ==
    /\ Returned
    /\ chained
    /\ "pre-commit" \in ResultTools
    /\ DOMAIN ResultMetadata # {}

TerminationInv ==
    /\ (WellFormed /\ KnownIds) => pc # "raised"
    /\ (pc \in {"loop", "done"} /\ KnownIds) =>
        /\ current_file_types \subseteq FileTypeIds
        /\ current_tools \subseteq ToolIds
        /\ iterations <= Cardinality(current_file_types)
                            + Cardinality(current_tools)
                            + (IF pc = "done" THEN 1 ELSE 0)
        /\ iterations <= Cardinality(FileTypeIds) + Cardinality(ToolIds) + 1

GrowthStep ==
    pc = "loop" =>
        /\ current_file_types \subseteq current_file_types'
        /\ current_tools \subseteq current_tools'
        /\ pc' = "loop" =>
                \/ current_file_types' # current_file_types
                \/ current_tools' # current_tools
        /\ pc' = "done" =>
                /\ current_file_types' = current_file_types
                /\ current_tools' = current_tools

\* C5: on known ids expand_config does not raise; the working sets only
\* grow; every iteration but the last adds a file type or a tool, and the
\* one that adds nothing returns; so at most (number of Registry file types
\* + number of Registry tools + 1) iterations run.
Termination == []TerminationInv /\ [][GrowthStep]_vars

\* A call returned in its fourth iteration or later.
TerminationWitness == Returned /\ iterations >= 4 /\ KnownIds

\* The mapping a raw config gives as metadata; none when the field is
\* missing, None or empty.
GivenMetadata(raw) ==
    IF "metadata" \in DOMAIN raw /\ raw["metadata"].kind = "map"
    THEN raw["metadata"].val
    ELSE <<>>

\* C6: the metadata of the result is existing.metadata overlaid with
\* new.metadata, new winning on a shared key, and from the seeding of the
\* working sets to the return the loop leaves the metadata of both
\* arguments as given, whatever is seeded.
MetadataOverlay ==
    /\ pc \in {"loop", "done"} =>
        /\ new.metadata = GivenMetadata(new_raw)
        /\ existing.metadata = GivenMetadata(existing_raw)
    /\ Returned =>
        /\ DOMAIN ResultMetadata =
                DOMAIN GivenMetadata(new_raw) \cup DOMAIN GivenMetadata(existing_raw)
        /\ \A k \in DOMAIN ResultMetadata :
                ResultMetadata[k] =
                    IF k \in DOMAIN GivenMetadata(new_raw)
                    THEN GivenMetadata(new_raw)[k]
                    ELSE GivenMetadata(existing_raw)[k]

\* A call whose arguments disagree on key k, and where only existing has
\* key foo, returned a closure with tools.
MetadataOverlayWitness ==
    /\ Returned
    /\ ~chained
    /\ GivenMetadata(new_raw) = ("k" :> "new")
    /\ GivenMetadata(existing_raw) = ("foo" :> "old" @@ "k" :> "old")
    /\ ResultMetadata = ("foo" :> "old" @@ "k" :> "new")
    /\ "uv" \in ResultTools

\* The field is missing from the raw config, or None.
IsNull(raw, key) == key \notin DOMAIN raw \/ raw[key] = RawNone

EmptyResult ==
    [file_types |-> RawSeq(<<>>), tools |-> RawSeq(<<>>), metadata |-> RawMap(<<>>)]

\* C7: a field that is missing or None is read as an empty one and is never
\* what a TypeError is raised for; a call whose fields are all missing or
\* None returns {file_types: [], tools: [], metadata: {}}.
NullHandling ==
    /\ (pc = "raised" /\ raised.type = "TypeError") =>
            \/ ~IsNull(new_raw, raised.arg)
            \/ ~IsNull(existing_raw, raised.arg)
    /\ pc \in {"loop", "done"} =>
            \A key \in Keys :
                /\ IsNull(new_raw, key) =>
                        new[key] = (IF key = "metadata" THEN <<>> ELSE {})
                /\ IsNull(existing_raw, key) =>
                        existing[key] = (IF key = "metadata" THEN <<>> ELSE {})
    /\ (\A key \in Keys : IsNull(new_raw, key) /\ IsNull(existing_raw, key)) =>
            /\ pc # "raised"
            /\ Returned => result = EmptyResult

\* The call with all three fields of new None, and {} as existing, returned
\* the empty config.
NullHandlingWitness ==
    /\ Returned
    /\ new_raw = Raw(RawNone, RawNone, RawNone)
    /\ existing_raw = EmptyRaw
    /\ result = EmptyResult

\* C8: expand_config({}, {file_types: [shell], tools: [pre-commit],
\* metadata: {foo: bar}}) returns exactly the lists that
\* TestConfigExtension.test_expand_config expects.
ShellPreCommitExact ==
    (/\ Returned
     /\ new_raw = EmptyRaw
     /\ existing_raw = Raw(RawSeq(<<"shell">>), RawSeq(<<"pre-commit">>),
                           RawMap("foo" :> "bar"))) =>
        result =
            [file_types |-> RawSeq(<<"json", "python", "shell", "toml", "yaml">>),
             tools |-> RawSeq(<<"mypy", "node-license-checker", "npm",
                                "pre-commit", "prettier",
                                "python-license-checker", "ruff", "shellcheck",
                                "shfmt", "tombi", "uv", "yamllint">>),
             metadata |-> RawMap("foo" :> "bar")]

\* C9: expand_config({}, {file_types: [shell], tools: [pre-commit]}) holds
\* shellcheck, shfmt and uv, and does not hold markdownlint.
ShellPreCommitScenario ==
    (/\ Returned
     /\ new_raw = EmptyRaw
     /\ SetOf(existing_raw, "file_types") = {"shell"}
     /\ SetOf(existing_raw, "tools") = {"pre-commit"}) =>
        /\ {"shellcheck", "shfmt", "uv"} \subseteq ResultTools
        /\ "markdownlint" \notin ResultTools

\* That call, without metadata, returned.
ShellPreCommitScenarioWitness ==
    /\ Returned
    /\ new_raw = EmptyRaw
    /\ existing_raw = Raw(RawSeq(<<"shell">>), RawSeq(<<"pre-commit">>), Absent)
    /\ "uv" \in ResultTools

\* The tools without installer, required tools and config file types.
LeafTools ==
    {t \in ToolIds :
        /\ TOOLS[t].installed_by = None
        /\ TOOLS[t].requires = {}
        /\ TOOLS[t].config_file_types = {}}

\* C10 as stated: a tool without installer, required tools and config file
\* types (shfmt, actionlint) is in the result exactly when it is seeded or
\* listed in FileType.tools of a file type of the result.
LeafSeededOrFileType ==
    (Returned /\ KnownIds) =>
        /\ LeafTools = {"shfmt", "actionlint"}
        /\ \A t \in LeafTools :
            t \in ResultTools <=>
                \/ t \in SeededTools
                \/ \E ft \in ResultFileTypes : t \in FILE_TYPES[ft].tools

\* C10 as amended: such a tool is in the result exactly when it is seeded,
\* or listed in FileType.tools of a file type of the result, or listed in
\* the requires set of a tool of the result.
LeafSeededOrFileTypeOrRequired ==
    (Returned /\ KnownIds) =>
        /\ LeafTools = {"shfmt", "actionlint"}
        /\ \A t \in LeafTools :
            t \in ResultTools <=>
                \/ t \in SeededTools
                \/ \E ft \in ResultFileTypes : t \in FILE_TYPES[ft].tools
                \/ \E u \in ResultTools : t \in TOOLS[u].requires

\* actionlint, not seeded, is in a result with github-actions, and shfmt is
\* in it through the shell file type.
LeafSeededOrFileTypeOrRequiredWitness ==
    /\ Returned
    /\ SeededTools = {"github-actions"}
    /\ SeededFileTypes = {}
    /\ {"actionlint", "shfmt"} \subseteq ResultTools
    /\ "shell" \in ResultFileTypes

(***************************************************************************)
(* Malformed and unknown input, the order of the output, the Registry.     *)
(***************************************************************************)
\* The keys of raw whose value has the wrong shape: a mapping under
\* file_types or tools, a sequence under metadata.
WrongShapeKeys(raw) ==
    {k \in DOMAIN raw \cap {"file_types", "tools"} : raw[k].kind = "map"}
        \cup {k \in DOMAIN raw \cap {"metadata"} : raw[k].kind = "seq"}

\* C11: whenever file_types or tools of an argument is a mapping, or
\* metadata is a sequence, the call raises TypeError naming such a key, and
\* it neither seeds the loop nor returns a Config.
WrongShapeRaisesTypeError ==
    (WrongShapeKeys(new_raw) \cup WrongShapeKeys(existing_raw) # {}) =>
        /\ pc \in {"call", "raised"}
        /\ pc = "raised" =>
                /\ raised.type = "TypeError"
                /\ raised.arg \in WrongShapeKeys(new_raw)
                                    \cup WrongShapeKeys(existing_raw)

\* C12: when both arguments parse and an id of new or existing is in
\* neither Registry table, the call ends in the first iteration with a
\* KeyError for such an id; it never returns a result.
UnknownIdRaisesKeyError ==
    (WellFormed /\ ~KnownIds) =>
        /\ ~Returned
        /\ result = NoResult
        /\ pc = "loop" => iterations = 0
        /\ pc = "raised" =>
                /\ raised.type = "KeyError"
                /\ iterations = 1
                /\ raised.arg \in (SeededFileTypes \ FileTypeIds)
                                    \cup (SeededTools \ ToolIds)

\* The unknown tool "typo" is seeded next to a known file type, and the
\* call has raised KeyError for it.
UnknownIdRaisesKeyErrorWitness ==
    /\ pc = "raised"
    /\ WellFormed
    /\ raised = KeyError("typo")
    /\ "typo" \in SeededTools
    /\ SeededFileTypes # {}
    /\ SeededFileTypes \subseteq FileTypeIds

StrictlyAscending(s) ==
    \A i \in 1..Len(s) : \A j \in 1..Len(s) :
        i < j => SeqLess(CodePoints[s[i]], CodePoints[s[j]])

\* C13: in every returned config file_types and tools are lists in
\* strictly ascending code-point order, so without duplicates, whatever
\* the order of the lists given.
SortedOutput ==
    Returned =>
        /\ result["file_types"].kind = "seq"
        /\ result["tools"].kind = "seq"
        /\ StrictlyAscending(result["file_types"].val)
        /\ StrictlyAscending(result["tools"].val)

\* A list given in descending order, and a result of several file types
\* and tools.
SortedOutputWitness ==
    /\ Returned
    /\ "tools" \in DOMAIN existing_raw
    /\ existing_raw["tools"].kind = "seq"
    /\ Len(existing_raw["tools"].val) = 2
    /\ StrLess(existing_raw["tools"].val[2], existing_raw["tools"].val[1])
    /\ Len(result["tools"].val) > 2
    /\ Len(result["file_types"].val) > 1

\* Every edge of the Registry ends in the Registry.
NoDanglingEdges ==
    /\ \A ft \in FileTypeIds : FILE_TYPES[ft].tools \subseteq ToolIds
    /\ \A t \in ToolIds :
            /\ TOOLS[t].installed_by \in ToolIds \cup {None}
            /\ TOOLS[t].requires \subseteq ToolIds
            /\ TOOLS[t].config_file_types \subseteq FileTypeIds

\* C20: the Registry has no dangling edges, and so a call on known ids
\* meets no failing lookup in any iteration and never raises KeyError.
RegistryClosed ==
    /\ NoDanglingEdges
    /\ (WellFormed /\ KnownIds) =>
            /\ raised.type # "KeyError"
            /\ pc = "loop" =>
                    MissingIds(current_file_types, current_tools) = {}

\* A call on known ids that took more than two iterations to return.
RegistryClosedWitness ==
    /\ Returned
    /\ KnownIds
    /\ SeededFileTypes \cup SeededTools # {}
    /\ iterations > 2

(***************************************************************************)
(* What the claims about detect_config speak of.                           *)
(***************************************************************************)
DetectReturned == detect.pc = "done"

DetectedFileTypes == Range(detect.result["file_types"].val)
DetectedTools == Range(detect.result["tools"].val)
DetectedMetadata == detect.result["metadata"].val

\* The enumerated files that identify can classify.
Classifiable == repo.files \ repo.missing

\* C14: a Registry file type is in the file_types detect_config returns if
\* and only if an enumerated, classifiable file has a tag among the tags of
\* that file type; nothing else is in file_types.
FileTypesDetected ==
    DetectReturned =>
        /\ DetectedFileTypes \subseteq FileTypeIds
        /\ \A ft \in FileTypeIds :
                ft \in DetectedFileTypes <=>
                    \E f \in Classifiable :
                        FILE_TYPES[ft].tags \cap TagsOnDisk[f] # {}

\* README.md is listed but not on disk, so markdown is not detected, while
\* python is, from a file that has the tag python but not the tag pyi.
FileTypesDetectedWitness ==
    /\ DetectReturned
    /\ "README.md" \in repo.missing
    /\ Classifiable # {}
    /\ "markdown" \notin DetectedFileTypes
    /\ "python" \in DetectedFileTypes

\* One of the tool's packages of either ecosystem is installed.
PackageInstalled(t) ==
    \/ DOMAIN TOOLS[t].python_packages \cap detect.python_packages # {}
    \/ DOMAIN TOOLS[t].node_packages \cap detect.node_packages # {}

\* C15: a Registry tool is in the tools detect_config returns if and only
\* if there is an enumerated, classifiable file for which the tool's tags
\* meet the file's tags, or a package of the tool is installed, or the path
\* fully matches one of the tool's file_regexes; nothing is added by
\* closure.
ToolsDetected ==
    DetectReturned =>
        /\ DetectedTools \subseteq ToolIds
        /\ \A t \in ToolIds :
                t \in DetectedTools <=>
                    \E f \in Classifiable :
                        \/ TOOLS[t].tags \cap TagsOnDisk[f] # {}
                        \/ PackageInstalled(t)
                        \/ \E regex \in TOOLS[t].file_regexes :
                                fullmatch(regex, f)

\* pytest is detected from tests/conftest.py alone: nothing is installed,
\* its installer uv is not added, and mypy, a tool of the detected python
\* file type, is not added either.
ToolsDetectedWitness ==
    /\ DetectReturned
    /\ "tests/conftest.py" \in Classifiable
    /\ detect.python_packages = {}
    /\ detect.node_packages = {}
    /\ DetectedTools = {"pytest"}
    /\ TOOLS["pytest"].installed_by = "uv"
    /\ "python" \in DetectedFileTypes
    /\ "mypy" \in FILE_TYPES["python"].tools

\* Both listing commands exited with 0 and printed a JSON document.
ListingsSucceeded ==
    /\ repo.uv_pip_list.started /\ repo.npm_list.started
    /\ repo.uv_pip_list.returncode = 0 /\ repo.npm_list.returncode = 0
    /\ repo.uv_pip_list.stdout.kind = "json"
    /\ repo.npm_list.stdout.kind = "json"

\* C16: over the files of the test (a python file, an executable shell
\* script, a .bats file, conftest.py and a file that cannot be classified)
\* detect_config returns file_types [python, shell] and as tools bats,
\* pytest and exactly the tools with an installed package; with mypy and
\* prettier installed the tools are [bats, mypy, prettier, pytest].
DetectScenario ==
    (DetectReturned /\ ListingsSucceeded
        /\ repo.files = TestTree.files /\ repo.missing = TestTree.missing) =>
        /\ detect.result["file_types"] = RawSeq(<<"python", "shell">>)
        /\ DetectedTools = {"bats", "pytest"} \cup
                {t \in ToolIds :
                    \/ DOMAIN TOOLS[t].python_packages
                            \cap repo.uv_pip_list.stdout.names # {}
                    \/ DOMAIN TOOLS[t].node_packages
                            \cap repo.npm_list.stdout.names # {}}
        /\ (repo.uv_pip_list.stdout.names = {"mypy"}
                /\ repo.npm_list.stdout.names = {"prettier"}) =>
                    detect.result["tools"] =
                        RawSeq(<<"bats", "mypy", "prettier", "pytest">>)

\* The call of the test has returned.
DetectScenarioWitness ==
    /\ DetectReturned
    /\ ListingsSucceeded
    /\ repo.files = TestTree.files
    /\ repo.missing = {"quux"}
    /\ repo.uv_pip_list.stdout.names = {"mypy"}
    /\ repo.npm_list.stdout.names = {"prettier"}
    /\ Len(detect.result["tools"].val) = 4

\* The listing command failed, or printed nothing or no JSON document.
ListingFailed(run) ==
    \/ ~run.started
    \/ run.returncode # 0
    \/ run.stdout.kind \in {"empty", "blank", "garbage"}

\* C17: when a package-listing command fails (a non-zero exit, a missing
\* executable) or prints nothing or garbage, the installed set of that
\* ecosystem is empty and detect_config goes on; no error of a listing
\* command leaves detect_config.
ListingFailureDegrades ==
    /\ detect.raised.type \notin {"FileNotFoundError", "JSONDecodeError"}
    /\ (ListingFailed(repo.uv_pip_list)
            /\ detect.pc \notin {"idle", "git", "uv", "raised"}) =>
                detect.python_packages = {}
    /\ (ListingFailed(repo.npm_list)
            /\ detect.pc \notin {"idle", "git", "uv", "npm", "raised"}) =>
                detect.node_packages = {}

\* C18: the metadata detect_config returns has a key for a producer if and
\* only if the producer returned a value other than None, the value stored
\* is the value the producer gives for the pyproject.toml and the machine
\* whatever the files are, and each producer is queried once.
MetadataFromProducers ==
    /\ \A name \in DOMAIN METADATA : detect.queried[name] <= 1
    /\ detect.pc \in {"git", "uv", "npm", "scan"} =>
            \A name \in DOMAIN METADATA : detect.queried[name] = 0
    /\ DetectReturned =>
            /\ DOMAIN DetectedMetadata \subseteq DOMAIN METADATA
            /\ \A name \in DOMAIN METADATA :
                LET got == Metadata_get(name, repo.pyproject, repo.failing)
                IN  /\ detect.queried[name] = 1
                    /\ detect.returned[name] = got.value
                    /\ name \in DOMAIN DetectedMetadata <=>
                            got.value # PyNone
                    /\ name \in DOMAIN DetectedMetadata =>
                            DetectedMetadata[name] = got.value

\* An empty pyproject.toml in the repository of the test: project_version
\* is the default, is_python_package is None and has no key.
MetadataFromProducersWitness ==
    /\ DetectReturned
    /\ repo.pyproject = TomlFile(<<>>)
    /\ repo.files = TestTree.files
    /\ detect.returned["is_python_package"] = PyNone
    /\ "is_python_package" \notin DOMAIN DetectedMetadata
    /\ DetectedMetadata["project_version"] = PyStr("0.0.0")
    /\ DetectedMetadata["uv_version"] = PyStr("0.9.0")

(***************************************************************************)
(* What the claims about the package projections speak of.                 *)
(***************************************************************************)
\* The packages the Registry declares for a tool in an ecosystem.
DeclaredPackages(ecosystem, t) ==
    IF ecosystem = "python" THEN TOOLS[t].python_packages
    ELSE TOOLS[t].node_packages

\* The Registry tools listed in the config projected.
ListedTools == SetOf(projection.config, "tools") \cap ToolIds

\* C19: the keys of python_packages(config), and of node_packages(config),
\* are exactly the package names of that ecosystem declared by the Registry
\* tools listed in config.tools, each with the version its tool pins; the
\* tools are not closed first.
PackagesProjected ==
    projection.pc = "done" =>
        /\ DOMAIN projection.out =
                UNION {DOMAIN DeclaredPackages(projection.ecosystem, t) :
                            t \in ListedTools}
        /\ \A t \in ListedTools :
                \A k \in DOMAIN DeclaredPackages(projection.ecosystem, t) :
                    projection.out[k] =
                        DeclaredPackages(projection.ecosystem, t)[k]

\* node_packages of a config listing prettier and stylelint, as in the
\* test: npm, the installer of both, adds nothing.
PackagesProjectedWitness ==
    /\ projection.pc = "done"
    /\ projection.ecosystem = "node"
    /\ ListedTools = {"prettier", "stylelint"}
    /\ TOOLS["prettier"].installed_by = "npm"
    /\ DOMAIN projection.out =
            {"prettier", "stylelint", "stylelint-config-standard"}
    /\ projection.out["prettier"] = "3.6.2"

\* The ways to put the members of S in a row.
Orders(S) ==
    {s \in [1..Cardinality(S) -> S] :
        \A i \in DOMAIN s : \A j \in DOMAIN s : s[i] = s[j] => i = j}

\* out after out.update(selector(data)) for the tools of order, in turn.
RECURSIVE ProjectedIn(_, _)
ProjectedIn(ecosystem, order) ==
    IF order = <<>> THEN <<>>
    ELSE DictUnion(ProjectedIn(ecosystem, SubSeq(order, 1, Len(order) - 1)),
                   selector(ecosystem, order[Len(order)]))

\* C21: within an ecosystem no package name is declared by two of the listed
\* tools with different versions, and so whatever the order the listed tools
\* are processed in, the projection is the one returned.
PackagesConsistent ==
    /\ projection.pc = "done" =>
            \A ecosystem \in Ecosystems :
                \A t \in ListedTools : \A u \in ListedTools :
                    \A k \in DOMAIN DeclaredPackages(ecosystem, t)
                                \cap DOMAIN DeclaredPackages(ecosystem, u) :
                        DeclaredPackages(ecosystem, t)[k]
                            = DeclaredPackages(ecosystem, u)[k]
    /\ projection.pc = "done" =>
            \A order \in Orders(ListedTools) :
                ProjectedIn(projection.ecosystem, order) = projection.out

\* python_packages of a config listing mypy and ruff, two tools that each
\* declare a package, has returned.
PackagesConsistentWitness ==
    /\ projection.pc = "done"
    /\ projection.ecosystem = "python"
    /\ ListedTools = {"mypy", "ruff"}
    /\ DOMAIN projection.out = {"mypy", "ruff"}
    /\ Cardinality(Orders(ListedTools)) = 2

\* C27: a tool id of config.tools that the Registry does not hold raises
\* nothing and contributes nothing: the call returns the projection of the
\* listed Registry tools.
UnknownToolsIgnored ==
    (from_yaml_error(projection.config) = NoError
        /\ SetOf(projection.config, "tools") \ ToolIds # {}) =>
        /\ projection.pc # "raised"
        /\ projection.raised = NoError
        /\ projection.pc = "done" =>
                projection.out =
                    [k \in UNION {DOMAIN DeclaredPackages(
                                        projection.ecosystem, t) :
                                    t \in ListedTools} |->
                        LET t == CHOOSE u \in ListedTools :
                                    k \in DOMAIN DeclaredPackages(
                                                projection.ecosystem, u)
                        IN  DeclaredPackages(projection.ecosystem, t)[k]]

\* python_packages of a config listing pytest and the unknown id typo has
\* returned the packages of pytest.
UnknownToolsIgnoredWitness ==
    /\ projection.pc = "done"
    /\ projection.ecosystem = "python"
    /\ SetOf(projection.config, "tools") = {"pytest", "typo"}
    /\ "typo" \notin ToolIds
    /\ DOMAIN projection.out =
            {"pytest", "pytest-cov", "pytest-custom_exit_code"}

\* C28: the file types and the tools collected so far all come from a
\* classifiable file: a file identify cannot classify adds nothing, not even
\* by its path, and with no classifiable file detect_config returns empty
\* file_types and tools whatever the packages installed.
SignalsOnlyInLoop ==
    /\ detect.file_types \subseteq
            {ft \in FileTypeIds :
                \E f \in Classifiable :
                    FILE_TYPES[ft].tags \cap TagsOnDisk[f] # {}}
    /\ detect.tools \subseteq
            {t \in ToolIds :
                \E f \in Classifiable :
                    \/ TOOLS[t].tags \cap TagsOnDisk[f] # {}
                    \/ PackageInstalled(t)
                    \/ \E regex \in TOOLS[t].file_regexes :
                            fullmatch(regex, f)}
    /\ (DetectReturned /\ Classifiable = {}) =>
            /\ DetectedFileTypes = {}
            /\ DetectedTools = {}

\* conftest.py is listed by git but is not on disk and mypy is installed:
\* neither pytest nor mypy is detected.
SignalsOnlyInLoopWitness ==
    /\ DetectReturned
    /\ "conftest.py" \in repo.missing
    /\ Classifiable = {}
    /\ "mypy" \in detect.python_packages
    /\ fullmatch("(.*/)?conftest\\.py", "conftest.py")
    /\ DetectedFileTypes = {}
    /\ DetectedTools = {}

\* The number of installed_by steps from tool to a tool that has no
\* installer, or -1 when more than fuel steps do not reach one.
RECURSIVE InstallerSteps(_, _)
InstallerSteps(tool, fuel) ==
    IF installed_by(tool) = None THEN 0
    ELSE IF fuel = 0 THEN -1
    ELSE LET rest == InstallerSteps(installed_by(tool), fuel - 1)
         IN  IF rest = -1 THEN -1 ELSE rest + 1

\* C24: no tool is its own installer, and from every tool installed_by
\* leads to a tool without installer in at most one step, the installer
\* being uv or npm; the installer of a returned tool is returned and is not
\* its own installer.
InstallersAcyclic ==
    /\ \A t \in ToolIds :
            /\ installed_by(t) # t
            /\ InstallerSteps(t, Cardinality(ToolIds)) \in {0, 1}
            /\ installed_by(t) # None =>
                    /\ installed_by(t) \in {"uv", "npm"}
                    /\ installed_by(installed_by(t)) = None
    /\ Returned =>
            \A t \in ResultTools \cap ToolIds :
                installed_by(t) # None =>
                    /\ installed_by(t) \in ResultTools
                    /\ installed_by(installed_by(t)) # installed_by(t)

\* The closure of a seed holding prettier has followed one installer step,
\* to npm, which has no installer.
InstallersAcyclicWitness ==
    /\ Returned
    /\ "prettier" \in SeededTools
    /\ installed_by("prettier") = "npm"
    /\ InstallerSteps("prettier", Cardinality(ToolIds)) = 1
    /\ "npm" \in ResultTools

\* The sets the loop of expand_config stops on, started from the given
\* sets of known ids.
RECURSIVE ClosureOf(_, _)
ClosureOf(file_types, tools) ==
    LET body == LoopBody(file_types, tools)
    IN  IF Stable(body, file_types, tools) THEN body
        ELSE ClosureOf(body.file_types, body.tools)

\* C25: the file_types and tools expand_config returns are a function of
\* the unions of the ids of new and existing alone, so the call with the
\* two arguments swapped returns the same two lists; and whether the call
\* raises on an unknown id depends on the unions alone too.
UnionsDecide ==
    /\ (Returned /\ KnownIds) =>
            /\ [file_types |-> ResultFileTypes, tools |-> ResultTools]
                    = ClosureOf(SeededFileTypes, SeededTools)
            /\ [file_types |-> ResultFileTypes, tools |-> ResultTools]
                    = ClosureOf(SeedIds(new.file_types, existing.file_types),
                                SeedIds(new.tools, existing.tools))
    /\ (WellFormed /\ pc = "raised") => ~KnownIds

\* new lists the tool bats and existing the file type python; the result
\* holds what either gives.
UnionsDecideWitness ==
    /\ Returned
    /\ SetOf(new_raw, "tools") = {"bats"}
    /\ SetOf(new_raw, "file_types") = {}
    /\ SetOf(existing_raw, "file_types") = {"python"}
    /\ SetOf(existing_raw, "tools") = {}
    /\ {"bats", "mypy"} \subseteq ResultTools

\* The tools and the file types that the closure of uv or of npm holds.
CoreTools ==
    {"uv", "npm", "ast-grep", "mypy", "node-license-checker", "prettier",
     "python-license-checker", "ruff", "shellcheck", "shfmt", "tombi",
     "yamllint"}
CoreFileTypes == {"json", "python", "shell", "toml", "yaml"}

MaxCalls == 2

CallIds == 1..MaxCalls
Operations == {"expand_config", "python_packages", "node_packages"}

\* The arguments the concurrent calls are given.
ConcurrentArguments ==
    {[new |-> EmptyRaw, existing |-> EmptyRaw],
     [new |-> Raw(Absent, RawSeq(<<"pytest", "prettier">>), Absent),
      existing |-> EmptyRaw],
     [new |-> Raw(RawSeq(<<"shell">>), RawSeq(<<"bats">>),
                  RawMap("foo" :> "new")),
      existing |-> Raw(Absent, RawSeq(<<"gitlint">>), RawMap("foo" :> "old"))],
     [new |-> Raw(Absent, RawSeq(<<"typo", "mypy">>), Absent),
      existing |-> Raw(RawSeq(<<"toml">>), Absent, Absent)],
     [new |-> Raw(Absent, RawSeq(<<"actionlint">>), Absent),
      existing |-> Raw(Absent, RawMap("shfmt" :> "x"), Absent)],
     [new |-> Raw(RawMap("toml" :> "x"), RawSeq(<<"eslint">>), Absent),
      existing |-> EmptyRaw]}

\* The locals of a call that has not taken a step.
NewCall(op) ==
    [op |-> op,
     pc |-> "call",
     new |-> NoConfig,
     existing |-> NoConfig,
     file_types |-> {},
     tools |-> {},
     visited |-> 0,
     out |-> <<>>,
     result |-> NoResult,
     raised |-> NoError]

ConcurrentInit ==
    /\ ExpandIdle
    /\ repo = NoRepo
    /\ detect = NoDetect
    /\ projection = NoProjection
    /\ ChaoticIdle
    /\ RoundtripIdle
    /\ VersionIdle
    /\ shared \in ConcurrentArguments
    /\ passed = shared
    /\ calls \in [CallIds -> {NewCall(op) : op \in Operations}]

\* The ecosystem a projection selects.
EcosystemOf(op) == IF op = "python_packages" THEN "python" ELSE "node"

\* A from_yaml that takes the keys out of the mapping it is given
\* (data.pop for data.get): expand_config parsing its arguments empties
\* them.
ConcurrentSeedPops(c) ==
    /\ calls[c].op = "expand_config"
    /\ calls[c].pc = "call"
    /\ from_yaml_error(shared.new) = NoError
    /\ from_yaml_error(shared.existing) = NoError
    /\ LET n == from_yaml(shared.new)
           e == from_yaml(shared.existing)
       IN  calls' = [calls EXCEPT ![c] =
                [@ EXCEPT !.new = n,
                          !.existing = e,
                          !.file_types = SeedIds(e.file_types, n.file_types),
                          !.tools = SeedIds(e.tools, n.tools),
                          !.pc = "loop"]]
    /\ shared' = [new |-> EmptyRaw, existing |-> EmptyRaw]
    /\ UNCHANGED <<expand_vars, repo, detect, projection, passed,
                   chaotic, roundtrip, version>>

\* Lines 927-928: Config.from_yaml of an argument raises.
ConcurrentFromYamlRaises(c) ==
    /\ calls[c].pc = "call"
    /\ LET error ==
            IF from_yaml_error(shared.new) # NoError
                \/ calls[c].op # "expand_config"
            THEN from_yaml_error(shared.new)
            ELSE from_yaml_error(shared.existing)
       IN  /\ error # NoError
           /\ calls' = [calls EXCEPT ![c] = [@ EXCEPT !.raised = error,
                                                       !.pc = "raised"]]
    /\ UNCHANGED <<expand_vars, repo, detect, projection, shared, passed,
                   chaotic, roundtrip, version>>

\* Lines 927-930: expand_config parses its arguments into new Configs and
\* builds its own two sets.
ConcurrentSeed(c) ==
    /\ calls[c].op = "expand_config"
    /\ calls[c].pc = "call"
    /\ from_yaml_error(shared.new) = NoError
    /\ from_yaml_error(shared.existing) = NoError
    /\ LET n == from_yaml(shared.new)
           e == from_yaml(shared.existing)
       IN  calls' = [calls EXCEPT ![c] =
                [@ EXCEPT !.new = n,
                          !.existing = e,
                          !.file_types = SeedIds(e.file_types, n.file_types),
                          !.tools = SeedIds(e.tools, n.tools),
                          !.pc = "loop"]]
    /\ UNCHANGED <<expand_vars, repo, detect, projection, shared, passed,
                   chaotic, roundtrip, version>>

\* Lines 932-958: one iteration of the loop on the call's own sets; it
\* raises KeyError, returns or goes on.
ConcurrentIteration(c) ==
    /\ calls[c].op = "expand_config"
    /\ calls[c].pc = "loop"
    /\ LET file_types == calls[c].file_types
           tools == calls[c].tools
           body == LoopBody(file_types, tools)
       IN  IF MissingIds(file_types, tools) # {}
           THEN \E id \in MissingIds(file_types, tools) :
                    calls' = [calls EXCEPT ![c] =
                        [@ EXCEPT !.raised = KeyError(id), !.pc = "raised"]]
           ELSE IF Stable(body, file_types, tools)
           THEN calls' = [calls EXCEPT ![c] =
                    [@ EXCEPT
                        !.result = to_yaml(
                            [file_types |-> body.file_types,
                             tools |-> body.tools,
                             metadata |-> DictUnion(calls[c].existing.metadata,
                                                    calls[c].new.metadata)]),
                        !.pc = "done"]]
           ELSE calls' = [calls EXCEPT ![c] =
                    [@ EXCEPT !.file_types = body.file_types,
                              !.tools = body.tools]]
    /\ UNCHANGED <<expand_vars, repo, detect, projection, shared, passed,
                   chaotic, roundtrip, version>>

\* Lines 1030-1031: tools = Config.from_yaml(config).tools; out = {}
ConcurrentParse(c) ==
    /\ calls[c].op # "expand_config"
    /\ calls[c].pc = "call"
    /\ from_yaml_error(shared.new) = NoError
    /\ calls' = [calls EXCEPT ![c] =
            [@ EXCEPT !.tools = from_yaml(shared.new).tools, !.pc = "loop"]]
    /\ UNCHANGED <<expand_vars, repo, detect, projection, shared, passed,
                   chaotic, roundtrip, version>>

\* The tools of _TOOLS after the first visited ones that are in tools.
ListedAfter(visited, tools) ==
    {i \in (visited + 1)..Len(ToolOrder) : ToolOrder[i] \in tools}

\* Lines 1032-1034: the loop goes on to the next tool of _TOOLS that is in
\* tools; out.update(selector(data))
ConcurrentUpdate(c) ==
    /\ calls[c].op # "expand_config"
    /\ calls[c].pc = "loop"
    /\ ListedAfter(calls[c].visited, calls[c].tools) # {}
    /\ LET i == CHOOSE j \in ListedAfter(calls[c].visited, calls[c].tools) :
                    \A k \in ListedAfter(calls[c].visited, calls[c].tools) :
                        j <= k
       IN  calls' = [calls EXCEPT ![c] =
                [@ EXCEPT !.out = DictUnion(@, selector(EcosystemOf(calls[c].op),
                                                        ToolOrder[i])),
                          !.visited = i]]
    /\ UNCHANGED <<expand_vars, repo, detect, projection, shared, passed,
                   chaotic, roundtrip, version>>

\* Lines 1032-1035: no tool of tools is left; return out
ConcurrentPackagesReturn(c) ==
    /\ calls[c].op # "expand_config"
    /\ calls[c].pc = "loop"
    /\ ListedAfter(calls[c].visited, calls[c].tools) = {}
    /\ calls' = [calls EXCEPT ![c] = [@ EXCEPT !.visited = Len(ToolOrder),
                                                !.pc = "done"]]
    /\ UNCHANGED <<expand_vars, repo, detect, projection, shared, passed,
                   chaotic, roundtrip, version>>

ConcurrentNext ==
    \E c \in CallIds :
        \/ ConcurrentFromYamlRaises(c)
        \/ ConcurrentSeed(c)
        \/ ConcurrentIteration(c)
        \/ ConcurrentParse(c)
        \/ ConcurrentUpdate(c)
        \/ ConcurrentPackagesReturn(c)

SpecConcurrent == ConcurrentInit /\ [][ConcurrentNext]_vars

\* What expand_config(new_raw, existing_raw) run alone ends with, from the
\* working sets given: the results it can return and the errors it can
\* raise.
RECURSIVE ExpandAlone(_, _, _)
ExpandAlone(args, file_types, tools) ==
    LET body == LoopBody(file_types, tools)
    IN  IF MissingIds(file_types, tools) # {}
        THEN {[result |-> NoResult, raised |-> KeyError(id)] :
                id \in MissingIds(file_types, tools)}
        ELSE IF Stable(body, file_types, tools)
        THEN {[result |-> to_yaml(
                    [file_types |-> body.file_types,
                     tools |-> body.tools,
                     metadata |-> DictUnion(from_yaml(args.existing).metadata,
                                            from_yaml(args.new).metadata)]),
               raised |-> NoError]}
        ELSE ExpandAlone(args, body.file_types, body.tools)

\* The ways the operation run alone on the arguments can end.
Alone(op, args) ==
    IF op = "expand_config"
    THEN IF from_yaml_error(args.new) # NoError
         THEN {[result |-> NoResult, raised |-> from_yaml_error(args.new)]}
         ELSE IF from_yaml_error(args.existing) # NoError
         THEN {[result |-> NoResult,
                raised |-> from_yaml_error(args.existing)]}
         ELSE ExpandAlone(args,
                          SeedIds(from_yaml(args.existing).file_types,
                                  from_yaml(args.new).file_types),
                          SeedIds(from_yaml(args.existing).tools,
                                  from_yaml(args.new).tools))
    ELSE IF from_yaml_error(args.new) # NoError
         THEN {[result |-> <<>>, raised |-> from_yaml_error(args.new)]}
         ELSE {[result |->
                    ProjectedIn(EcosystemOf(op),
                                SelectSeq(ToolOrder,
                                          LAMBDA t :
                                            t \in from_yaml(args.new).tools)),
                raised |-> NoError]}

\* How the call has ended.
Ended(c) ==
    [result |-> IF calls[c].op = "expand_config" THEN calls[c].result
                ELSE calls[c].out,
     raised |-> calls[c].raised]

\* C22: under every interleaving of the steps of the concurrent calls the
\* shared arguments stay as they were passed, and every call that has ended
\* has ended as it does when run alone on them.
ConcurrentCallsIndependent ==
    /\ shared = passed
    /\ \A c \in CallIds :
            calls[c].pc \in {"done", "raised"} =>
                Ended(c) \in Alone(calls[c].op, passed)

\* An expand_config and a python_packages on the same arguments have both
\* returned, the projection having taken its steps while the closure was
\* in its loop.
ConcurrentCallsIndependentWitness ==
    /\ \A c \in CallIds : calls[c].pc = "done"
    /\ \E c \in CallIds : \E d \in CallIds :
            /\ calls[c].op = "expand_config"
            /\ calls[d].op = "python_packages"
            /\ "uv" \in Range(calls[c].result["tools"].val)
            /\ DOMAIN calls[d].out # {}

(***************************************************************************)
(* The edge rules of the Registry applied one at a time, to one member of  *)
(* the sets at a time, in any order, until none adds anything.             *)
(***************************************************************************)
\* The greatest number of ids in a seed of the rules
MaxChaoticSeed == 1

\* The nodes of the Registry, and the seeds of at most MaxChaoticSeed of
\* them: slot i holds the index of a node, ascending, or 0.
NodeSeq ==
    SetToSeq(({"file_types"} \X FileTypeIds) \cup ({"tools"} \X ToolIds))

NodeChoices ==
    {f \in [1..MaxChaoticSeed -> 0..Len(NodeSeq)] :
        \A i \in 1..(MaxChaoticSeed - 1) :
            f[i + 1] = 0 \/ (f[i] # 0 /\ f[i] < f[i + 1])}

ChosenNodes(f, key) ==
    {NodeSeq[f[i]][2] :
        i \in {j \in 1..MaxChaoticSeed :
                    f[j] # 0 /\ NodeSeq[f[j]][1] = key}}

ChaoticSeeds ==
    {[file_types |-> ChosenNodes(f, "file_types"),
      tools |-> ChosenNodes(f, "tools")] : f \in NodeChoices}

ChaoticInit ==
    /\ ExpandIdle
    /\ repo = NoRepo
    /\ detect = NoDetect
    /\ projection = NoProjection
    /\ ConcurrentIdle
    /\ RoundtripIdle
    /\ VersionIdle
    /\ \E seed \in ChaoticSeeds :
            chaotic = [pc |-> "rules",
                       seed_file_types |-> seed.file_types,
                       seed_tools |-> seed.tools,
                       file_types |-> seed.file_types,
                       tools |-> seed.tools]

\* The rule tool -> installed_by taking the installer of any tool of the
\* Registry.
ChaoticInstallerOfAny ==
    /\ chaotic.pc = "rules"
    /\ \E t \in ToolIds :
            /\ installed_by(t) # None
            /\ installed_by(t) \notin chaotic.tools
            /\ chaotic' = [chaotic EXCEPT !.tools = @ \cup {installed_by(t)}]
    /\ UNCHANGED <<expand_vars, repo, detect, projection, shared, passed,
                   calls, roundtrip, version>>

\* Line 937: new_tools.update(_FILE_TYPES[file_type].tools), for one file
\* type.
ChaoticFileTypeTools ==
    /\ chaotic.pc = "rules"
    /\ \E ft \in chaotic.file_types :
            /\ ~(FILE_TYPES[ft].tools \subseteq chaotic.tools)
            /\ chaotic' = [chaotic EXCEPT !.tools = @ \cup FILE_TYPES[ft].tools]
    /\ UNCHANGED <<expand_vars, repo, detect, projection, shared, passed,
                   calls, roundtrip, version>>

\* Lines 941-943: tools_to_add.add(installed_by), for one tool.
ChaoticInstaller ==
    /\ chaotic.pc = "rules"
    /\ \E t \in chaotic.tools :
            /\ installed_by(t) # None
            /\ installed_by(t) \notin chaotic.tools
            /\ chaotic' = [chaotic EXCEPT !.tools = @ \cup {installed_by(t)}]
    /\ UNCHANGED <<expand_vars, repo, detect, projection, shared, passed,
                   calls, roundtrip, version>>

\* Line 944: tools_to_add.update(_TOOLS[tool].requires), for one tool.
ChaoticRequires ==
    /\ chaotic.pc = "rules"
    /\ \E t \in chaotic.tools :
            /\ ~(TOOLS[t].requires \subseteq chaotic.tools)
            /\ chaotic' = [chaotic EXCEPT !.tools = @ \cup TOOLS[t].requires]
    /\ UNCHANGED <<expand_vars, repo, detect, projection, shared, passed,
                   calls, roundtrip, version>>

\* Line 948: new_file_types.update(_TOOLS[tool].config_file_types), for one
\* tool.
ChaoticConfigFileTypes ==
    /\ chaotic.pc = "rules"
    /\ \E t \in chaotic.tools :
            /\ ~(TOOLS[t].config_file_types \subseteq chaotic.file_types)
            /\ chaotic' = [chaotic EXCEPT
                    !.file_types = @ \cup TOOLS[t].config_file_types]
    /\ UNCHANGED <<expand_vars, repo, detect, projection, shared, passed,
                   calls, roundtrip, version>>

\* Line 950: no rule adds anything to either set.
ChaoticStops ==
    /\ chaotic.pc = "rules"
    /\ \A ft \in chaotic.file_types : FILE_TYPES[ft].tools \subseteq chaotic.tools
    /\ \A t \in chaotic.tools :
            /\ installed_by(t) # None => installed_by(t) \in chaotic.tools
            /\ TOOLS[t].requires \subseteq chaotic.tools
            /\ TOOLS[t].config_file_types \subseteq chaotic.file_types
    /\ chaotic' = [chaotic EXCEPT !.pc = "done"]
    /\ UNCHANGED <<expand_vars, repo, detect, projection, shared, passed,
                   calls, roundtrip, version>>

ChaoticNext ==
    \/ ChaoticFileTypeTools
    \/ ChaoticInstaller
    \/ ChaoticRequires
    \/ ChaoticConfigFileTypes
    \/ ChaoticStops

SpecChaotic == ChaoticInit /\ [][ChaoticNext]_vars

\* C23: the rules applied one at a time in any order never leave the sets
\* expand_config's loop ends with from the same seed, and when no rule adds
\* anything they have reached exactly those sets.
ChaoticAgrees ==
    LET closure == ClosureOf(chaotic.seed_file_types, chaotic.seed_tools)
    IN  /\ chaotic.file_types \subseteq closure.file_types
        /\ chaotic.tools \subseteq closure.tools
        /\ chaotic.pc = "done" =>
                /\ chaotic.file_types = closure.file_types
                /\ chaotic.tools = closure.tools

\* From the seed {prettier} the rules, taken in some order, have come to a
\* stop on sets holding the core tools.
ChaoticAgreesWitness ==
    /\ chaotic.pc = "done"
    /\ chaotic.seed_file_types = {}
    /\ chaotic.seed_tools = {"prettier"}
    /\ CoreTools \subseteq chaotic.tools
    /\ CoreFileTypes \subseteq chaotic.file_types

(***************************************************************************)
(* Config.to_yaml and Config.from_yaml applied one after the other: to a   *)
(* Config, to_yaml and then from_yaml; to a raw config, from_yaml and then *)
(* to_yaml.                                                                *)
(***************************************************************************)
\* The greatest length of a list of a raw config
MaxList == 3

RoundtripFileTypes == {"shell", "python"}
RoundtripTools == {"uv", "typo"}

RoundtripConfigs ==
    [file_types : SUBSET (RoundtripFileTypes \cup {"toml"}),
     tools : SUBSET (RoundtripTools \cup {"npm"}),
     metadata : MetaDicts]

\* The lists of at most MaxList of the ids, in any order and with
\* repetitions.
ListsOf(ids) == UNION {[1..n -> ids] : n \in 0..MaxList}

\* Every shape of the two list fields, and of the metadata.
RoundtripRaws ==
    {Raw(f, t, m) :
        f \in {Absent, RawNone, RawMap("shell" :> "x")}
                \cup {RawSeq(s) : s \in ListsOf(RoundtripFileTypes)},
        t \in {Absent, RawNone, RawMap(<<>>)}
                \cup {RawSeq(s) : s \in ListsOf(RoundtripTools)},
        m \in MetaShapes}

RoundtripInit ==
    /\ ExpandIdle
    /\ repo = NoRepo
    /\ detect = NoDetect
    /\ projection = NoProjection
    /\ ConcurrentIdle
    /\ ChaoticIdle
    /\ VersionIdle
    /\ \/ \E c \in RoundtripConfigs :
            roundtrip = [NoRoundtrip EXCEPT !.pc = "config",
                                             !.first = "to_yaml",
                                             !.config = c]
       \/ \E r \in RoundtripRaws :
            roundtrip = [NoRoundtrip EXCEPT !.pc = "raw",
                                             !.first = "from_yaml",
                                             !.raw = r]

\* Lines 380-385: c.to_yaml()
RoundtripToYaml ==
    /\ roundtrip.pc = "config"
    /\ roundtrip' = [roundtrip EXCEPT
            !.yaml = to_yaml(roundtrip.config),
            !.pc = IF roundtrip.first = "to_yaml" THEN "yaml" ELSE "done"]
    /\ UNCHANGED <<expand_vars, repo, detect, projection, shared, passed,
                   calls, chaotic, version>>

\* Lines 354-378: Config.from_yaml of what to_yaml returned.
RoundtripFromYaml ==
    /\ roundtrip.pc = "yaml"
    /\ from_yaml_error(roundtrip.yaml) = NoError
    /\ roundtrip' = [roundtrip EXCEPT !.back = from_yaml(roundtrip.yaml),
                                      !.pc = "done"]
    /\ UNCHANGED <<expand_vars, repo, detect, projection, shared, passed,
                   calls, chaotic, version>>

\* Lines 354-378: Config.from_yaml(r)
RoundtripParse ==
    /\ roundtrip.pc = "raw"
    /\ from_yaml_error(roundtrip.raw) = NoError
    /\ roundtrip' = [roundtrip EXCEPT !.config = from_yaml(roundtrip.raw),
                                      !.pc = "config"]
    /\ UNCHANGED <<expand_vars, repo, detect, projection, shared, passed,
                   calls, chaotic, version>>

\* Lines 356-372: _set or _dict raises TypeError.
RoundtripRaises ==
    /\ roundtrip.pc \in {"raw", "yaml"}
    /\ LET data == IF roundtrip.pc = "raw" THEN roundtrip.raw
                   ELSE roundtrip.yaml
       IN  /\ from_yaml_error(data) # NoError
           /\ roundtrip' = [roundtrip EXCEPT !.raised = from_yaml_error(data),
                                             !.pc = "raised"]
    /\ UNCHANGED <<expand_vars, repo, detect, projection, shared, passed,
                   calls, chaotic, version>>

RoundtripNext ==
    \/ RoundtripToYaml
    \/ RoundtripFromYaml
    \/ RoundtripParse
    \/ RoundtripRaises

SpecRoundtrip == RoundtripInit /\ [][RoundtripNext]_vars

\* Each list field of the raw config is missing, None or a list, and the
\* metadata is missing, None or a mapping.
WellFormedRaw(raw) ==
    /\ \A k \in {"file_types", "tools"} \cap DOMAIN raw :
            raw[k].kind \in {"none", "seq"}
    /\ "metadata" \in DOMAIN raw => raw["metadata"].kind \in {"none", "map"}

\* The members of a list field of a well-formed raw config, and its
\* metadata.
RawMembers(raw, key) ==
    IF key \in DOMAIN raw /\ raw[key].kind = "seq"
    THEN {raw[key].val[i] : i \in 1..Len(raw[key].val)} ELSE {}
RawMetadata(raw) ==
    IF "metadata" \in DOMAIN raw /\ raw["metadata"].kind = "map"
    THEN raw["metadata"].val ELSE <<>>

\* C29: from_yaml of what to_yaml gives for a Config is that Config; and
\* to_yaml of what from_yaml gives for a well-formed raw config holds the
\* members of its lists, each once and in ascending order, and its
\* metadata.
RoundTrip ==
    /\ roundtrip.first = "to_yaml" =>
            /\ roundtrip.pc # "raised"
            /\ roundtrip.pc = "done" => roundtrip.back = roundtrip.config
    /\ (roundtrip.first = "from_yaml" /\ WellFormedRaw(roundtrip.raw)) =>
            /\ roundtrip.pc # "raised"
            /\ roundtrip.pc = "done" =>
                    /\ DOMAIN roundtrip.yaml = Keys
                    /\ \A k \in {"file_types", "tools"} :
                            /\ roundtrip.yaml[k].kind = "seq"
                            /\ Range(roundtrip.yaml[k].val)
                                    = RawMembers(roundtrip.raw, k)
                            /\ StrictlyAscending(roundtrip.yaml[k].val)
                    /\ roundtrip.yaml["metadata"]
                            = RawMap(RawMetadata(roundtrip.raw))

\* A raw config that lists python, shell and python again and has metadata
\* has gone through from_yaml and to_yaml.
RoundTripWitness ==
    /\ roundtrip.pc = "done"
    /\ roundtrip.first = "from_yaml"
    /\ {"file_types", "metadata"} \subseteq DOMAIN roundtrip.raw
    /\ roundtrip.raw["file_types"].kind = "seq"
    /\ roundtrip.raw["file_types"].val = <<"python", "shell", "python">>
    /\ roundtrip.yaml["file_types"].val = <<"python", "shell">>
    /\ roundtrip.raw["metadata"].kind = "map"
    /\ roundtrip.raw["metadata"].val = ("foo" :> "old")
    /\ roundtrip.yaml["metadata"].val = ("foo" :> "old")

(***************************************************************************)
(* UV.python_version(version_hint).  A string is the sequence of its code  *)
(* points, so that matching, int() and str() are computed.                 *)
(***************************************************************************)
\* The strings of the tests and a few more, as code points.
VersionCodePoints ==
    ("3.12" :> <<51, 46, 49, 50>>
    @@ "3.13" :> <<51, 46, 49, 51>>
    @@ "3.12.0" :> <<51, 46, 49, 50, 46, 48>>
    @@ "3.13.0" :> <<51, 46, 49, 51, 46, 48>>
    @@ "3.13.0\n" :> <<51, 46, 49, 51, 46, 48, 10>>
    @@ "\n" :> <<10>>
    @@ "3.13.0rc1" :> <<51, 46, 49, 51, 46, 48, 114, 99, 49>>
    @@ "3.13.1" :> <<51, 46, 49, 51, 46, 49>>
    @@ "3.13.2rc1" :> <<51, 46, 49, 51, 46, 50, 114, 99, 49>>
    @@ "3.13.9" :> <<51, 46, 49, 51, 46, 57>>
    @@ "3.13.10" :> <<51, 46, 49, 51, 46, 49, 48>>
    @@ "3.14.0rc1" :> <<51, 46, 49, 52, 46, 48, 114, 99, 49>>
    @@ "3.013.2" :> <<51, 46, 48, 49, 51, 46, 50>>)

\* str.strip(): the whitespace at both ends is dropped.
Whitespace == {9, 10, 11, 12, 13, 32}
RECURSIVE strip(_)
strip(s) ==
    IF s = <<>> THEN s
    ELSE IF Head(s) \in Whitespace THEN strip(Tail(s))
    ELSE IF s[Len(s)] \in Whitespace THEN strip(SubSeq(s, 1, Len(s) - 1))
    ELSE s

\* The parts of s between the full stops.
FullStop == 46
RECURSIVE split(_)
split(s) ==
    IF \A i \in 1..Len(s) : s[i] # FullStop THEN <<s>>
    ELSE LET i == CHOOSE j \in 1..Len(s) :
                    s[j] = FullStop /\ \A k \in 1..(j - 1) : s[k] # FullStop
         IN  <<SubSeq(s, 1, i - 1)>> \o split(SubSeq(s, i + 1, Len(s)))

\* [0-9]+
Digits(part) ==
    Len(part) > 0 /\ \A i \in 1..Len(part) : part[i] \in 48..57

\* int(part) and str(n)
RECURSIVE int(_)
int(part) ==
    IF part = <<>> THEN 0
    ELSE 10 * int(SubSeq(part, 1, Len(part) - 1)) + (part[Len(part)] - 48)
RECURSIVE str(_)
str(n) == IF n < 10 THEN <<48 + n>> ELSE str(n \div 10) \o <<48 + (n % 10)>>

\* Line 59: re.fullmatch(r"([1-9][0-9]*)\.([0-9]+)(\.[0-9]+)?", v)
parse_version_matches(v) ==
    LET parts == split(v)
    IN  /\ Len(parts) \in {2, 3}
        /\ \A i \in 1..Len(parts) : Digits(parts[i])
        /\ parts[1][1] # 48

\* Line 62: int(match.group(1)), int(match.group(2))
parse_version(v) == <<int(split(v)[1]), int(split(v)[2])>>

\* Line 182: re.fullmatch(r"[0-9]+\.[0-9]+\.[0-9]+", version)
default_matches(v) ==
    LET parts == split(v)
    IN  Len(parts) = 3 /\ \A i \in 1..3 : Digits(parts[i])

\* Lines 180-184: the set of the tuples of ints of the listed versions that
\* match.
listed_tuples(versions) ==
    {<<int(split(v)[1]), int(split(v)[2]), int(split(v)[3])>> :
        v \in {versions[i] : i \in {j \in 1..Len(versions) :
                                        default_matches(versions[j])}}}

\* The order of tuples of three ints.
TupleLess(a, b) ==
    \/ a[1] < b[1]
    \/ a[1] = b[1] /\ a[2] < b[2]
    \/ a[1] = b[1] /\ a[2] = b[2] /\ a[3] < b[3]

\* Line 189: sorted(versions, reverse=True)[0]
greatest(tuples) ==
    CHOOSE t \in tuples : \A u \in tuples \ {t} : TupleLess(u, t)

\* Line 189: ".".join(str(v) for v in ...)
joined(t) == str(t[1]) \o <<FullStop>> \o str(t[2]) \o <<FullStop>> \o str(t[3])

\* The greatest number of versions uv python list prints
MaxListed == 3

Hints == {VersionCodePoints["3.13"], VersionCodePoints["3.12"]}

\* .python-version: missing, empty, blank, a version with and without a
\* patch number and a newline, and a pre-release.
VersionFiles ==
    {[exists |-> FALSE, content |-> <<>>], [exists |-> TRUE, content |-> <<>>]}
        \cup {[exists |-> TRUE, content |-> VersionCodePoints[c]] :
                c \in {"\n", "3.13.0", "3.13.0\n", "3.12.0", "3.13",
                       "3.13.0rc1"}}

ListedPool ==
    <<VersionCodePoints["3.13.0"], VersionCodePoints["3.13.1"],
      VersionCodePoints["3.13.2rc1"], VersionCodePoints["3.13.9"],
      VersionCodePoints["3.13.10"], VersionCodePoints["3.14.0rc1"],
      VersionCodePoints["3.013.2"], VersionCodePoints["3.12.0"]>>

\* The ways to list at most MaxListed versions of the pool: slot i holds
\* the index of a version, ascending, or 0.
ListedChoices ==
    {f \in [1..MaxListed -> 0..Len(ListedPool)] :
        \A i \in 1..(MaxListed - 1) :
            f[i + 1] = 0 \/ (f[i] # 0 /\ f[i] < f[i + 1])}

RECURSIVE ChosenListed(_, _)
ChosenListed(f, i) ==
    IF i > MaxListed \/ f[i] = 0 THEN <<>>
    ELSE <<ListedPool[f[i]]>> \o ChosenListed(f, i + 1)

\* uv python list --output-format=json cpython@hint: what it prints, or a
\* failure.
Listings ==
    {[returncode |-> 0, versions |-> ChosenListed(f, 1)] : f \in ListedChoices}
        \cup {[returncode |-> 2, versions |-> <<>>]}

VersionInit ==
    /\ ExpandIdle
    /\ repo = NoRepo
    /\ detect = NoDetect
    /\ projection = NoProjection
    /\ ConcurrentIdle
    /\ ChaoticIdle
    /\ RoundtripIdle
    /\ \E hint \in Hints : \E file \in VersionFiles : \E listing \in Listings :
            version = [NoVersion EXCEPT !.pc = "call",
                                         !.hint = hint,
                                         !.file = file,
                                         !.listing = listing]

\* Lines 191-197 and 201: existing = UV._existing_python_version()
VersionReadsExisting ==
    /\ version.pc = "call"
    /\ version' = [version EXCEPT
            !.existing = IF version.file.exists
                         THEN strip(version.file.content) ELSE <<>>,
            !.pc = "compare"]
    /\ UNCHANGED <<expand_vars, repo, detect, projection, shared, passed,
                   calls, chaotic, roundtrip>>

\* Lines 202-204: existing is not empty and parse_version raises ValueError
\* for it, or else for the hint.
VersionParseRaises ==
    /\ version.pc = "compare"
    /\ version.existing # <<>>
    /\ ~(parse_version_matches(version.existing)
            /\ parse_version_matches(version.hint))
    /\ version' = [version EXCEPT
            !.raised = ValueError("Invalid python version"),
            !.pc = "raised"]
    /\ UNCHANGED <<expand_vars, repo, detect, projection, shared, passed,
                   calls, chaotic, roundtrip>>

\* Lines 202-205: existing has the major and minor of the hint.
VersionReturnsExisting ==
    /\ version.pc = "compare"
    /\ version.existing # <<>>
    /\ parse_version_matches(version.existing)
    /\ parse_version_matches(version.hint)
    /\ parse_version(version.existing) = parse_version(version.hint)
    /\ version' = [version EXCEPT !.result = version.existing, !.pc = "done"]
    /\ UNCHANGED <<expand_vars, repo, detect, projection, shared, passed,
                   calls, chaotic, roundtrip>>

\* Lines 202-206: existing is empty or of another major.minor.
VersionFallsBack ==
    /\ version.pc = "compare"
    /\ \/ version.existing = <<>>
       \/ /\ parse_version_matches(version.existing)
          /\ parse_version_matches(version.hint)
          /\ parse_version(version.existing) # parse_version(version.hint)
    /\ version' = [version EXCEPT !.pc = "default"]
    /\ UNCHANGED <<expand_vars, repo, detect, projection, shared, passed,
                   calls, chaotic, roundtrip>>

\* Lines 174-178: uv exits with an error; check=True raises.
VersionListingRaises ==
    /\ version.pc = "default"
    /\ version.listing.returncode # 0
    /\ version' = [version EXCEPT
            !.raised = CalledProcessError("uv python list"),
            !.pc = "raised"]
    /\ UNCHANGED <<expand_vars, repo, detect, projection, shared, passed,
                   calls, chaotic, roundtrip>>

\* Lines 180-187: no listed version matches.
VersionDefaultRaises ==
    /\ version.pc = "default"
    /\ version.listing.returncode = 0
    /\ listed_tuples(version.listing.versions) = {}
    /\ version' = [version EXCEPT
            !.raised = ValueError("Can't find a default python version"),
            !.pc = "raised"]
    /\ UNCHANGED <<expand_vars, repo, detect, projection, shared, passed,
                   calls, chaotic, roundtrip>>

\* Lines 180-189: the greatest of the listed versions that match.
VersionReturnsDefault ==
    /\ version.pc = "default"
    /\ version.listing.returncode = 0
    /\ listed_tuples(version.listing.versions) # {}
    /\ version' = [version EXCEPT
            !.result = joined(greatest(listed_tuples(version.listing.versions))),
            !.pc = "done"]
    /\ UNCHANGED <<expand_vars, repo, detect, projection, shared, passed,
                   calls, chaotic, roundtrip>>

VersionNext ==
    \/ VersionReadsExisting
    \/ VersionParseRaises
    \/ VersionReturnsExisting
    \/ VersionFallsBack
    \/ VersionListingRaises
    \/ VersionDefaultRaises
    \/ VersionReturnsDefault

SpecVersion == VersionInit /\ [][VersionNext]_vars

\* What .python-version holds, without the whitespace around it.
FileVersion == IF version.file.exists THEN strip(version.file.content) ELSE <<>>

\* The file holds a version of the major and minor of the hint.
FileAgreesWithHint ==
    /\ FileVersion # <<>>
    /\ parse_version_matches(FileVersion)
    /\ parse_version(FileVersion) = parse_version(version.hint)

\* The call has returned the greatest of the listed versions of the form
\* digits.digits.digits, or raised ValueError when there is none.
DefaultResolved ==
    IF listed_tuples(version.listing.versions) # {}
    THEN /\ version.pc = "done"
         /\ default_matches(version.result)
         /\ listed_tuples(<<version.result>>)
                = {greatest(listed_tuples(version.listing.versions))}
    ELSE /\ version.pc = "raised"
         /\ version.raised.type = "ValueError"

\* C30: python_version returns what .python-version holds when the file is
\* there, is not empty and has the major.minor of the hint; in every other
\* case it returns the greatest listed version of the form
\* digits.digits.digits, compared as triples of integers, and raises
\* ValueError only when no such version is listed.
PythonVersionResolved ==
    (version.pc \in {"done", "raised"} /\ version.listing.returncode = 0) =>
        IF FileAgreesWithHint
        THEN version.pc = "done" /\ version.result = FileVersion
        ELSE DefaultResolved

====
